---------------------------- MODULE Spec2Model ----------------------------
(* A model of the AgriUnity browser client: the authenticated request     *)
(* helper (api.js), the persisted session store and the login form        *)
(* (store.js, Login.jsx), the new-listing form (FarmerDashboard.jsx) and   *)
(* the simulated workflow engine (WorkflowEngine), and the components of   *)
(* the chat pages (AIAgentSystem, GroupRoom.jsx, UnifiedChat.jsx).         *)
(*                                                                         *)
(* Every component has its own variables, its own actions and its own      *)
(* specification (SpecApi, SpecSession, SpecListing, SpecEngine, ...); the *)
(* actions of a component leave the other components' variables alone.     *)
EXTENDS Integers, Sequences, FiniteSets, TLC

VARIABLES
    \* ---- api.js: one call of authFetch ----
    afPc,        \* position of the async function: idle, fetch, errjson, json, done
    afCall,      \* the arguments of the call: token and options
    afReq,       \* the config handed to fetch(url, config)
    afResp,      \* the response fetch resolved with
    afOutcome,   \* how the promise authFetch returned has settled
    afJsonCalls, \* how many times response.json() was called in this call
    \* ---- store.js and Login.jsx ----
    user, token, \* the zustand store's state
    storage,     \* the localStorage item 'user-storage'
    step, loading, error, locationOk,  \* Login's component state
    pinPc,       \* position of handlePincodeChange: idle, or awaiting its lookup
    lgPc,        \* position of handleLogin / handleSubmit
    lgKind,      \* which handler is running: login or register
    lgResp,      \* the response of the request in flight
    \* ---- FarmerDashboard.jsx: the new-listing form ----
    selectedCrop, quantity, selectedGrade, formError,
    reported,    \* the control the browser reported invalid at the last submit
    lfPosts,     \* the POSTs to /api/products/list-product/ sent so far
    \* ---- WorkflowEngine ----
    constructed, \* whether new WorkflowEngine(...) has run
    dealGroup,   \* the deal group object the engine holds and writes to
    read,        \* the fields of dealGroup the engine has read or written
    userRole,    \* user.role of the user the engine was constructed with
    currentStage, stageHistory, pendingActions,
    nextId,      \* the ids given out by addPendingAction so far
    workflowTimer, autoProgressEnabled,
    timeouts,    \* the setTimeout callbacks not yet run, in firing order
    trackers,    \* the number of intervals trackShipment has started
    stateChanges,\* the calls of onStateChange, in order
    ticks,       \* how many interval callbacks have run
    \* ---- AIAgentSystem ----
    aiConstructed,       \* whether new AIAgentSystem(...) has run
    conversationContext, \* the context log, oldest entry first
    ctxAdded,            \* how many entries addToContext has pushed so far
    generated,           \* the types of the messages given to onMessageGenerated
    aiDestroyed,         \* whether AIAgentSystem.destroy() has run
    aiClock,             \* the minutes since the agent's intervals were started
    stamps,              \* the timestamps of the stage_guidance entries of the context
    guidanceTimes,       \* the timestamps of the ai_stage_guidance messages given out
    aiNotified,          \* the ids of the actions whose aiNotified is true
    notifications,       \* the ids of the actions the ai_action_notification messages are about
    \* ---- GroupRoom.jsx ----
    grMounted,   \* whether the effect has run: first fetchAll, interval started
    grMessages, grMembers, grPoll, grLogistics, grInput, grLoading,
    grPost,      \* the POST sendMessage or vote awaits: none, send, vote
    grInflight,  \* the calls of fetchAll awaiting their responses
    grIssued,    \* how many calls of fetchAll were made so far
    grApplied,   \* the numbers of the calls whose responses were applied, in order
    \* ---- FarmerDashboard.jsx: the table of the farmer's listings ----
    dashMounted, tab, myListings, dashError, isLoading,
    listingFetches,  \* the calls of fetchData awaiting their responses
    patches,         \* the PATCH requests editListing has sent
    patchesInflight, \* how many of them await their response
    tabSwitches,     \* how many times the farmer changed the tab
    \* ---- UnifiedChat.jsx ----
    ucMounted, ucRole,
    ucMessages, ucDealGroup, ucMembers, ucActivePoll, ucLogistics,
    ucLoading, ucError, ucIsNegotiating,
    fetchDataPc,    \* the request fetchData awaits: none, group, chat, members,
                    \* poll, logistics, or done
    fetchDataSees,  \* `messages` as the closure of fetchData holds it
    historyPc,      \* loadExistingNegotiationData: none, awaiting, done
    offerPc,        \* handleBuyerOffer: none or awaiting
    actionPc,       \* handleAction: none, awaiting, or refreshing the poll
    ucRequests      \* the requests the component has sent, in order

apiVars  == <<afPc, afCall, afReq, afResp, afOutcome, afJsonCalls>>
sessVars == <<user, token, storage, step, loading, error, locationOk, pinPc,
              lgPc, lgKind, lgResp>>
formVars == <<selectedCrop, quantity, selectedGrade, formError, reported, lfPosts>>
engVars  == <<constructed, dealGroup, read, userRole, currentStage, stageHistory,
              pendingActions, nextId, workflowTimer, autoProgressEnabled,
              timeouts, trackers, stateChanges, ticks>>
aiVars   == <<aiConstructed, conversationContext, ctxAdded, generated, aiDestroyed,
              aiClock, stamps, guidanceTimes, aiNotified, notifications>>
\* the variables of the components of the chat pages
roomVars == <<grMounted, grMessages, grMembers, grPoll, grLogistics, grInput,
              grLoading, grPost, grInflight, grIssued, grApplied>>
dashVars == <<dashMounted, tab, myListings, dashError, isLoading,
              listingFetches, patches, patchesInflight, tabSwitches>>
ucVars   == <<ucMounted, ucRole, ucMessages, ucDealGroup, ucMembers,
              ucActivePoll, ucLogistics, ucLoading, ucError, ucIsNegotiating,
              fetchDataPc, fetchDataSees, historyPc, offerPc, actionPc,
              ucRequests>>
extVars  == <<aiVars, roomVars, dashVars, ucVars>>
\* for each of these components, the variables of the others
otherThanAi   == <<roomVars, dashVars, ucVars>>
otherThanRoom == <<aiVars, dashVars, ucVars>>
otherThanDash == <<aiVars, roomVars, ucVars>>
otherThanChat == <<aiVars, roomVars, dashVars>>
\* the variables of the components above them
coreVars == <<apiVars, sessVars, formVars, engVars>>
vars     == <<coreVars, extVars>>

-----------------------------------------------------------------------------
(* Bounds of the model.                                                    *)

\* the most fields an error object of the backend carries
MaxFields == 2
\* the most messages an error object carries, over all its fields
MaxMsgs == 2

-----------------------------------------------------------------------------
(* JavaScript values.                                                      *)

\* a header a headers object does not have
Absent == "<absent>"
HeaderNames == {"Authorization", "Content-Type", "X-Requested-With"}
NoHeaders == [n \in HeaderNames |-> Absent]

\* a JSON value as response.json() yields it: null, or an object whose
\* properties are listed in enumeration order, each an array of strings or a
\* bare string
JsNull == [t |-> "null", fields |-> <<>>]
JsObject(fields) == [t |-> "object", fields |-> fields]

\* `${x}` of a token: a string stays itself, null becomes "null"
NullToken == "<null>"
TemplateString(x) == IF x = NullToken THEN "null" ELSE x

\* { ...a, ...b } of two headers objects: b's properties win
Spread(a, b) == [n \in HeaderNames |-> IF b[n] # Absent THEN b[n] ELSE a[n]]

RECURSIVE Join(_, _)
\* Array.prototype.join
Join(items, sep) ==
    IF Len(items) = 0 THEN ""
    ELSE IF Len(items) = 1 THEN items[1]
    ELSE items[1] \o sep \o Join(Tail(items), sep)

RECURSIVE Flat(_)
\* Object.values(obj).flat(): an array contributes its items, any other
\* value itself
Flat(fields) ==
    IF Len(fields) = 0 THEN <<>>
    ELSE (IF fields[1].isArray THEN fields[1].items ELSE <<fields[1].items[1]>>)
         \o Flat(Tail(fields))


-----------------------------------------------------------------------------
(* api.js: authFetch.                                                      *)

Tokens == {"t1", NullToken}
Msgs == {"", "msg1", "msg2"}
Statuses == {200, 201, 204, 400, 500}

\* the headers objects a caller passes as options.headers: none, the
\* caller's own Content-Type or Authorization, or an unrelated header
CallerHeaders ==
    { NoHeaders,
      [NoHeaders EXCEPT !["Content-Type"] = "application/json"],
      [NoHeaders EXCEPT !["Content-Type"] = "text/plain"],
      [NoHeaders EXCEPT !["Authorization"] = "Token t1"],
      [NoHeaders EXCEPT !["Authorization"] = "Bearer other"],
      [NoHeaders EXCEPT !["X-Requested-With"] = "XMLHttpRequest"] }

\* options: null, or an object with a body (none, a JSON string, a FormData)
\* and headers; an omitted options argument is the default {}
NullOptions == [isNull |-> TRUE, body |-> "none", headers |-> NoHeaders]
OptionsArgs ==
    {NullOptions} \cup
    [isNull : {FALSE}, body : {"none", "json", "formdata"}, headers : CallerHeaders]

NoCall == [token |-> NullToken, options |-> NullOptions]
NoReq == [sent |-> FALSE, body |-> "none", headers |-> NoHeaders]

\* the values of one property of an error object whose messages fit a budget
FieldValues(budget) ==
    { [isArray |-> TRUE, items |-> s] :
        s \in UNION { [1..n -> Msgs] : n \in 0..budget } }
    \cup (IF budget >= 1
          THEN { [isArray |-> FALSE, items |-> <<m>>] : m \in Msgs }
          ELSE {})

RECURSIVE FieldSeqs(_, _)
\* the property lists of at most k properties carrying at most budget messages
FieldSeqs(k, budget) ==
    IF k = 0 THEN {<<>>}
    ELSE {<<>>} \cup
         UNION { { <<v>> \o rest : rest \in FieldSeqs(k - 1, budget - Len(v.items)) } :
                 v \in FieldValues(budget) }

\* a response body: text that is no JSON, or the JSON text of a value
NonJsonBody == [json |-> FALSE, value |-> JsNull]
Bodies ==
    {NonJsonBody, [json |-> TRUE, value |-> JsNull]} \cup
    { [json |-> TRUE, value |-> JsObject(f)] : f \in FieldSeqs(MaxFields, MaxMsgs) }

\* a 204 response has no content
Responses ==
    { r \in [status : Statuses, body : Bodies] :
        r.status = 204 => r.body = NonJsonBody }
NoResp == [status |-> 0, body |-> NonJsonBody]

\* response.ok
ok(r) == r.status >= 200 /\ r.status <= 299

Pending == [kind |-> "pending", value |-> JsNull, message |-> ""]
Resolved(v) == [kind |-> "resolved", value |-> v, message |-> ""]
Rejected(m) == [kind |-> "rejected", value |-> JsNull, message |-> m]

isFormData(options) == options.body = "formdata"

\* a faulty variant: Content-Type application/json whatever the body is
defaultHeaders_alwaysJson(tok, options) ==
    [NoHeaders EXCEPT
        !["Content-Type"] = "application/json",
        !["Authorization"] = "Token " \o TemplateString(tok)]

defaultHeaders(tok, options) ==
    [NoHeaders EXCEPT
        !["Content-Type"] = IF isFormData(options) THEN Absent ELSE "application/json",
        !["Authorization"] = "Token " \o TemplateString(tok)]

config(tok, options) ==
    [sent |-> TRUE, body |-> options.body,
     headers |-> Spread(defaultHeaders(tok, options), options.headers)]

\* a faulty variant: join() without its separator argument
errorMessage_commaJoin(errorData) ==
    LET joined == Join(Flat(errorData.fields), ",")
    IN  IF joined # "" THEN joined ELSE "An API error occurred."

\* the message of the Error thrown for a non-2xx response whose body parsed
errorMessage(errorData) ==
    LET joined == Join(Flat(errorData.fields), " ")
    IN  IF joined # "" THEN joined ELSE "An API error occurred."

\* a faulty variant: the generic message instead of the status
httpErrorMessage_generic(r) == "An API error occurred."

\* the message of the Error thrown for a non-2xx response that did not parse
httpErrorMessage(r) == "HTTP error! status: " \o ToString(r.status)

\* a faulty variant: 205 Reset Content taken for No Content
NoContent_resetContent == 204 + 1

\* the status authFetch answers without reading the body
NoContent == 204

ApiInit ==
    /\ afPc = "idle"
    /\ afCall = NoCall
    /\ afReq = NoReq
    /\ afResp = NoResp
    /\ afOutcome = Pending
    /\ afJsonCalls = 0

\* authFetch(url, token, options) up to `await fetch(url, config)`; reading
\* options.headers of a null options throws before any request is made
authFetch(tok, options) ==
    /\ afPc \in {"idle", "done"}
    /\ afCall' = [token |-> tok, options |-> options]
    /\ afResp' = NoResp
    /\ afJsonCalls' = 0
    /\ IF options.isNull
       THEN /\ afReq' = NoReq
            /\ afOutcome' = Rejected("TypeError: Cannot read properties of null")
            /\ afPc' = "done"
       ELSE /\ afReq' = config(tok, options)
            /\ afOutcome' = Pending
            /\ afPc' = "fetch"
    /\ UNCHANGED <<sessVars, formVars, engVars, extVars>>

\* fetch rejects: the rejection leaves authFetch as it is
fetchFails ==
    /\ afPc = "fetch"
    /\ afOutcome' = Rejected("TypeError: Failed to fetch")
    /\ afPc' = "done"
    /\ UNCHANGED <<afCall, afReq, afResp, afJsonCalls>>
    /\ UNCHANGED <<sessVars, formVars, engVars, extVars>>

\* fetch resolves with r: authFetch runs up to its next await, or returns
afterFetch(r) ==
    /\ afPc = "fetch"
    /\ afResp' = r
    /\ IF ~ok(r)
       THEN /\ afJsonCalls' = afJsonCalls + 1
            /\ afPc' = "errjson"
            /\ UNCHANGED afOutcome
       ELSE IF r.status = NoContent
       THEN /\ afOutcome' = Resolved(JsNull)
            /\ afPc' = "done"
            /\ UNCHANGED afJsonCalls
       ELSE /\ afJsonCalls' = afJsonCalls + 1
            /\ afPc' = "json"
            /\ UNCHANGED afOutcome
    /\ UNCHANGED <<afCall, afReq>>
    /\ UNCHANGED <<sessVars, formVars, engVars, extVars>>

\* `errorData = await response.json()` of a non-2xx response settles
afterErrorJson ==
    /\ afPc = "errjson"
    /\ afOutcome' =
          IF ~afResp.body.json THEN Rejected(httpErrorMessage(afResp))
          ELSE IF afResp.body.value = JsNull
          THEN Rejected("TypeError: Cannot convert undefined or null to object")
          ELSE Rejected(errorMessage(afResp.body.value))
    /\ afPc' = "done"
    /\ UNCHANGED <<afCall, afReq, afResp, afJsonCalls>>
    /\ UNCHANGED <<sessVars, formVars, engVars, extVars>>

\* the promise of `return response.json()` settles
afterJson ==
    /\ afPc = "json"
    /\ afOutcome' =
          IF afResp.body.json THEN Resolved(afResp.body.value)
          ELSE Rejected("SyntaxError: Unexpected end of JSON input")
    /\ afPc' = "done"
    /\ UNCHANGED <<afCall, afReq, afResp, afJsonCalls>>
    /\ UNCHANGED <<sessVars, formVars, engVars, extVars>>

-----------------------------------------------------------------------------
(* store.js: the session store, persisted as the localStorage item         *)
(* 'user-storage'; Login.jsx: handleLogin and handleSubmit.                *)

NullV == "<null>"
UndefV == "<undefined>"
\* a property a JSON text does not have
Missing == "<missing>"

\* what the backend answers as user and as token: a property may be absent,
\* and a token may be the empty string
UserValues == {UndefV, "alice", "bob"}
TokenValues == {UndefV, "", "tokA", "tokB"}
DetailValues == {UndefV, "Invalid credentials"}

\* the state the store is created with
initialState == [user |-> NullV, token |-> NullV]

\* setUser: (user, token) => set({ user, token })
setUser(u, t) == [user |-> u, token |-> t]

\* a faulty variant: only the user is cleared
logoutState_userOnly == [user |-> NullV, token |-> token]

\* logout: () => set({ user: null, token: null })
logoutState == [user |-> NullV, token |-> NullV]

\* a faulty variant: only the user is persisted
setItem_userOnly(state) ==
    [present |-> TRUE,
     user |-> IF state.user = UndefV THEN Missing ELSE state.user,
     token |-> Missing]

\* persist's write of the state: JSON.stringify leaves out the functions and
\* every property whose value is undefined
setItem(state) ==
    [present |-> TRUE,
     user |-> IF state.user = UndefV THEN Missing ELSE state.user,
     token |-> IF state.token = UndefV THEN Missing ELSE state.token]

NoItem == [present |-> FALSE, user |-> Missing, token |-> Missing]

\* persist's read when the store is created: the persisted properties are
\* spread over the initial state
rehydrate(item) ==
    IF ~item.present THEN initialState
    ELSE [user |-> IF item.user = Missing THEN initialState.user ELSE item.user,
          token |-> IF item.token = Missing THEN initialState.token ELSE item.token]

\* set(partial) of the persisted store
set(partial) ==
    /\ user' = partial.user
    /\ token' = partial.token
    /\ storage' = setItem(partial)

\* JavaScript truthiness of a string-or-absent value
truthy(v) == v \notin {UndefV, NullV, ""}

\* the responses of /api/auth/login/ and /api/auth/register/: a body that is
\* no JSON, an error object, or an object with user and token
NoData == [user |-> UndefV, token |-> UndefV, detail |-> UndefV]
AuthResponses ==
    { [ok |-> o, json |-> FALSE, data |-> NoData] : o \in BOOLEAN }
    \cup { [ok |-> FALSE, json |-> TRUE, data |-> [NoData EXCEPT !.detail = d]] :
             d \in DetailValues }
    \cup { [ok |-> TRUE, json |-> TRUE, data |-> [NoData EXCEPT !.user = u, !.token = t]] :
             u \in UserValues, t \in TokenValues }
NoAuthResp == [ok |-> FALSE, json |-> FALSE, data |-> NoData]

\* a faulty variant: the token is not looked at
hasToken_unchecked(data) == TRUE

\* `if (data.token)`
hasToken(data) == truthy(data.token)

\* the message of the Error thrown for a non-OK response
authErrorMessage(kind, errorData) ==
    IF truthy(errorData.detail) THEN errorData.detail
    ELSE IF kind = "login" THEN "Login failed"
    ELSE "{...}"   \* JSON.stringify(errorData), never empty

SessInit ==
    /\ user = initialState.user
    /\ token = initialState.token
    /\ storage = NoItem
    /\ step = "role-select"
    /\ loading = FALSE
    /\ error = ""
    /\ locationOk = FALSE
    /\ pinPc = "idle"
    /\ lgPc = "idle"
    /\ lgKind = "none"
    /\ lgResp = NoAuthResp

handleRoleSelect(selected) ==
    /\ step = "role-select"
    /\ step' = IF selected = "FARMER" THEN "farmer-auth" ELSE "buyer-auth"
    /\ error' = ""
    /\ UNCHANGED <<user, token, storage, loading, locationOk, pinPc, lgPc, lgKind, lgResp>>
    /\ UNCHANGED <<apiVars, formVars, engVars, extVars>>

\* the "Login here" button
showLogin ==
    /\ step = "role-select"
    /\ step' = "login"
    /\ UNCHANGED <<user, token, storage, loading, error, locationOk, pinPc, lgPc, lgKind, lgResp>>
    /\ UNCHANGED <<apiVars, formVars, engVars, extVars>>

goBack ==
    /\ step \in {"farmer-auth", "buyer-auth", "login"}
    /\ step' = "role-select"
    /\ error' = ""
    /\ UNCHANGED <<user, token, storage, loading, locationOk, pinPc, lgPc, lgKind, lgResp>>
    /\ UNCHANGED <<apiVars, formVars, engVars, extVars>>

\* handlePincodeChange up to its return or to `await fetch(url)`: a pincode
\* shorter than six digits clears the location, one of six digits is looked up
handlePincodeChange(digits) ==
    /\ step \in {"farmer-auth", "buyer-auth"}
    /\ digits \in {"short", "six"}
    /\ IF digits = "short"
       THEN locationOk' = FALSE /\ UNCHANGED pinPc
       ELSE pinPc = "idle" /\ pinPc' = "lookup" /\ UNCHANGED locationOk
    /\ UNCHANGED <<user, token, storage, step, loading, error, lgPc, lgKind, lgResp>>
    /\ UNCHANGED <<apiVars, formVars, engVars, extVars>>

\* the lookup settles: the location is found, or is not, or the request fails
pincodeLookupSettles(result) ==
    /\ pinPc = "lookup"
    /\ result \in {"found", "notfound", "failed"}
    /\ pinPc' = "idle"
    /\ locationOk' = (result = "found")
    /\ error' = CASE result = "found" -> ""
                  [] result = "notfound" -> "Pincode not found: Please check your pincode"
                  [] OTHER -> "Network error: Unable to verify pincode. Please try again."
    /\ UNCHANGED <<user, token, storage, step, loading, lgPc, lgKind, lgResp>>
    /\ UNCHANGED <<apiVars, formVars, engVars, extVars>>

\* handleLogin up to `await fetch(...)`; the submit button is disabled while
\* loading
handleLogin ==
    /\ step = "login"
    /\ ~loading
    /\ loading' = TRUE
    /\ error' = ""
    /\ lgPc' = "fetch"
    /\ lgKind' = "login"
    /\ lgResp' = NoAuthResp
    /\ UNCHANGED <<user, token, storage, step, locationOk, pinPc>>
    /\ UNCHANGED <<apiVars, formVars, engVars, extVars>>

\* handleSubmit up to `await fetch(...)`, or to its return when no location
\* was detected
handleSubmit ==
    /\ step \in {"farmer-auth", "buyer-auth"}
    /\ ~loading
    /\ lgResp' = NoAuthResp
    /\ IF ~locationOk
       THEN /\ error' = "Please enter a valid 6-digit pincode to auto-detect your location"
            /\ loading' = FALSE
            /\ UNCHANGED <<lgPc, lgKind>>
       ELSE /\ error' = ""
            /\ loading' = TRUE
            /\ lgPc' = "fetch"
            /\ lgKind' = "register"
    /\ UNCHANGED <<user, token, storage, step, locationOk, pinPc>>
    /\ UNCHANGED <<apiVars, formVars, engVars, extVars>>

\* fetch rejects: catch sets the error, finally ends the loading
authFetchFails ==
    /\ lgPc = "fetch"
    /\ error' = "Failed to fetch"
    /\ loading' = FALSE
    /\ lgPc' = "idle"
    /\ UNCHANGED <<user, token, storage, step, locationOk, pinPc, lgKind, lgResp>>
    /\ UNCHANGED <<apiVars, formVars, engVars, extVars>>

\* fetch resolves with r: both branches await response.json()
authFetchResolves(r) ==
    /\ lgPc = "fetch"
    /\ lgResp' = r
    /\ lgPc' = "json"
    /\ UNCHANGED <<user, token, storage, step, loading, error, locationOk, pinPc, lgKind>>
    /\ UNCHANGED <<apiVars, formVars, engVars, extVars>>

\* response.json() settles: the rest of handleLogin / handleSubmit
authJsonSettles ==
    /\ lgPc = "json"
    /\ lgPc' = "idle"
    /\ loading' = FALSE
    /\ IF ~lgResp.json
       THEN /\ error' = "SyntaxError: Unexpected token"
            /\ UNCHANGED <<user, token, storage, step>>
       ELSE IF ~lgResp.ok
       THEN /\ error' = authErrorMessage(lgKind, lgResp.data)
            /\ UNCHANGED <<user, token, storage, step>>
       ELSE IF hasToken(lgResp.data)
       THEN /\ set(setUser(lgResp.data.user, lgResp.data.token))
            /\ UNCHANGED <<error, step>>
       ELSE IF lgKind = "register"
       THEN /\ error' = "Registration successful! Please login."
            /\ step' = "login"
            /\ UNCHANGED <<user, token, storage>>
       ELSE UNCHANGED <<user, token, storage, error, step>>
    /\ UNCHANGED <<locationOk, pinPc, lgKind, lgResp>>
    /\ UNCHANGED <<apiVars, formVars, engVars, extVars>>

\* the store's logout, as the Logout component's button calls it
logout ==
    /\ set(logoutState)
    /\ UNCHANGED <<step, loading, error, locationOk, pinPc, lgPc, lgKind, lgResp>>
    /\ UNCHANGED <<apiVars, formVars, engVars, extVars>>

\* a page load: the store is created again from the persisted item, the
\* components start over and the requests in flight are forgotten
pageLoad(item) ==
    /\ user' = rehydrate(item).user
    /\ token' = rehydrate(item).token
    /\ step' = "role-select"
    /\ loading' = FALSE
    /\ error' = ""
    /\ locationOk' = FALSE
    /\ pinPc' = "idle"
    /\ lgPc' = "idle"
    /\ lgKind' = "none"
    /\ lgResp' = NoAuthResp

reload ==
    /\ pageLoad(storage)
    /\ UNCHANGED storage
    /\ UNCHANGED <<apiVars, formVars, engVars, extVars>>

\* FarmerDashboard's logout: the store's logout, then the page is left for
\* /login
dashboardLogout ==
    /\ storage' = setItem(logoutState)
    /\ pageLoad(setItem(logoutState))
    /\ UNCHANGED <<apiVars, formVars, engVars, extVars>>

-----------------------------------------------------------------------------
(* FarmerDashboard.jsx: the new-listing form and handleSubmitListing.      *)

\* the most POSTs of the listing form the model follows
MaxPosts == 2

\* the values of the form's controls: the first option of both selects is
\* the empty one, the quantity is what was typed into the number input
CropOptions == {"", "Tomato", "Onion"}
GradeOptions == {"", "FAQ", "Medium"}
QuantityInputs == {"", "0", "500"}

\* parseInt(quantity, 10); NaN is -1
parseInt(q) == CASE q = "500" -> 500 [] q = "0" -> 0 [] OTHER -> -1

\* a faulty variant: the crop <select> without `required`
cropValid_notRequired(crop) == TRUE

\* the crop <select> is `required`
cropValid(crop) == crop # ""
\* the quantity <input type="number"> is `required` with min="1"
quantityValid(q) == q # "" /\ parseInt(q) >= 1
\* the grade <select> is `required`
gradeValid(grade) == grade # ""

\* the browser submits the form, and so calls onSubmit, only when every
\* control satisfies its constraints
formValid == cropValid(selectedCrop) /\ quantityValid(quantity) /\ gradeValid(selectedGrade)

FormInit ==
    /\ selectedCrop = ""
    /\ quantity = ""
    /\ selectedGrade = ""
    /\ formError = NullV
    /\ reported = "none"
    /\ lfPosts = <<>>

setSelectedCrop(crop) ==
    /\ selectedCrop' = crop
    /\ UNCHANGED <<quantity, selectedGrade, formError, reported, lfPosts>>
    /\ UNCHANGED <<apiVars, sessVars, engVars, extVars>>

setQuantity(q) ==
    /\ quantity' = q
    /\ UNCHANGED <<selectedCrop, selectedGrade, formError, reported, lfPosts>>
    /\ UNCHANGED <<apiVars, sessVars, engVars, extVars>>

setSelectedGrade(grade) ==
    /\ selectedGrade' = grade
    /\ UNCHANGED <<selectedCrop, quantity, formError, reported, lfPosts>>
    /\ UNCHANGED <<apiVars, sessVars, engVars, extVars>>

\* the first control, in document order, that fails its constraint
firstInvalid ==
    IF ~cropValid(selectedCrop) THEN "crop"
    ELSE IF ~quantityValid(quantity) THEN "quantity"
    ELSE IF ~gradeValid(selectedGrade) THEN "grade"
    ELSE "none"

\* handleSubmitListing up to `await authFetch(...)`, which sends the POST
handleSubmitListing ==
    /\ formError' = NullV
    /\ lfPosts' = Append(lfPosts, [crop_name |-> selectedCrop,
                                  quantity_kg |-> parseInt(quantity),
                                  grade |-> selectedGrade,
                                  state |-> "sent"])
    /\ UNCHANGED <<selectedCrop, quantity, selectedGrade>>

\* the "List My Produce" button: the browser validates the form and either
\* reports the first invalid control or fires onSubmit
submitForm ==
    /\ Len(lfPosts) < MaxPosts
    /\ reported' = firstInvalid
    /\ IF formValid
       THEN handleSubmitListing
       ELSE UNCHANGED <<selectedCrop, quantity, selectedGrade, formError, lfPosts>>
    /\ UNCHANGED <<apiVars, sessVars, engVars, extVars>>

\* the POST numbered i succeeds: the form is emptied
listingCreated(i) ==
    /\ i \in 1..Len(lfPosts)
    /\ lfPosts[i].state = "sent"
    /\ lfPosts' = [lfPosts EXCEPT ![i].state = "created"]
    /\ selectedCrop' = ""
    /\ quantity' = ""
    /\ selectedGrade' = ""
    /\ UNCHANGED <<formError, reported>>
    /\ UNCHANGED <<apiVars, sessVars, engVars, extVars>>

\* the POST numbered i fails: the error is shown under the form
listingFailed(i) ==
    /\ i \in 1..Len(lfPosts)
    /\ lfPosts[i].state = "sent"
    /\ lfPosts' = [lfPosts EXCEPT ![i].state = "failed"]
    /\ formError' = "crop_name: invalid"
    /\ UNCHANGED <<selectedCrop, quantity, selectedGrade, reported>>
    /\ UNCHANGED <<apiVars, sessVars, engVars, extVars>>

-----------------------------------------------------------------------------
(* WorkflowEngine.                                                         *)
(*                                                                         *)
(* The engine is constructed with an arbitrary deal group. A field of the  *)
(* deal group takes its value when the engine first reads it (`read` names *)
(* the fields read or written so far), so that the fields no stage has     *)
(* looked at yet do not multiply the states.                               *)
(*                                                                         *)
(* Timers fire in the order the browser runs them: a setTimeout callback   *)
(* (1000 to 2000 ms) runs before the next 30000 ms interval callback, and  *)
(* the callbacks scheduled by one handler run by increasing delay.         *)

\* the most interval callbacks (automation ticks, shipment tracking) the
\* model follows
MaxTicks == 2

NEGOTIATING == "NEGOTIATING"
ACCEPTED == "ACCEPTED"
IN_TRANSIT == "IN_TRANSIT"
DELIVERED == "DELIVERED"
COMPLETED == "COMPLETED"

\* the linear order of the stages
stageOrder == <<NEGOTIATING, ACCEPTED, IN_TRANSIT, DELIVERED, COMPLETED>>
Stages == { stageOrder[i] : i \in 1..Len(stageOrder) }

\* the status values the backend gives a deal group, and a missing status
BackendStatuses == Stages \cup {"SOLD", UndefV}

\* a faulty variant: ACCEPTED leads straight to DELIVERED
automationRules_skipsTransit ==
    [s \in {NEGOTIATING, ACCEPTED, IN_TRANSIT, DELIVERED} |->
       CASE s = NEGOTIATING ->
              [autoActions |-> <<"check_poll_status", "suggest_counter_offers", "market_analysis">>,
               nextStage |-> ACCEPTED,
               conditions |-> <<"poll_consensus", "price_agreement", "quantity_confirmed">>]
         [] s = ACCEPTED ->
              [autoActions |-> <<"assign_logistics_hub", "create_escrow_contract", "notify_buyer">>,
               nextStage |-> DELIVERED,
               conditions |-> <<"escrow_confirmed", "logistics_ready", "collection_confirmed">>]
         [] s = IN_TRANSIT ->
              [autoActions |-> <<"track_shipment", "update_status", "coordinate_delivery">>,
               nextStage |-> DELIVERED,
               conditions |-> <<"shipment_confirmed", "delivery_scheduled", "receipt_ready">>]
         [] OTHER ->
              [autoActions |-> <<"confirm_receipt", "process_payment", "release_escrow">>,
               nextStage |-> COMPLETED,
               conditions |-> <<"receipt_verified", "payment_completed", "escrow_cleared">>]]

automationRules ==
    [s \in {NEGOTIATING, ACCEPTED, IN_TRANSIT, DELIVERED} |->
       CASE s = NEGOTIATING ->
              [autoActions |-> <<"check_poll_status", "suggest_counter_offers", "market_analysis">>,
               nextStage |-> ACCEPTED,
               conditions |-> <<"poll_consensus", "price_agreement", "quantity_confirmed">>]
         [] s = ACCEPTED ->
              [autoActions |-> <<"assign_logistics_hub", "create_escrow_contract", "notify_buyer">>,
               nextStage |-> IN_TRANSIT,
               conditions |-> <<"escrow_confirmed", "logistics_ready", "collection_confirmed">>]
         [] s = IN_TRANSIT ->
              [autoActions |-> <<"track_shipment", "update_status", "coordinate_delivery">>,
               nextStage |-> DELIVERED,
               conditions |-> <<"shipment_confirmed", "delivery_scheduled", "receipt_ready">>]
         [] OTHER ->
              [autoActions |-> <<"confirm_receipt", "process_payment", "release_escrow">>,
               nextStage |-> COMPLETED,
               conditions |-> <<"receipt_verified", "payment_completed", "escrow_cleared">>]]

\* the values of the deal group's fields
NoPoll == [present |-> FALSE, total_votes |-> 0, expires |-> "far"]
Polls ==
    {NoPoll} \cup [present : {TRUE}, total_votes : {2, 3}, expires : {"far", "near", "expired"}]
FieldDomain ==
    [active_poll |-> Polls,
     members_count |-> {4},
     target_price_per_kg |-> {0, 50},
     current_offer |-> {0, 44, 46},
     total_quantity_kg |-> {1000},
     confirmed_quantity_kg |-> {899, 900},
     escrow_status |-> {UndefV, "PENDING", "CONFIRMED", "RELEASED"},
     logistics_status |-> {UndefV, "READY"},
     collection_status |-> {UndefV, "CONFIRMED"},
     shipment_status |-> {UndefV, "CONFIRMED"},
     delivery_scheduled |-> {FALSE, TRUE},
     receipt_status |-> {UndefV, "VERIFIED"},
     payment_status |-> {UndefV, "COMPLETED"}]
FieldNames == DOMAIN FieldDomain

\* the fields the condition checks and auto-actions of a stage read
stageReads(stage) ==
    CASE stage = NEGOTIATING ->
           {"active_poll", "members_count", "target_price_per_kg", "current_offer",
            "total_quantity_kg", "confirmed_quantity_kg"}
      [] stage = ACCEPTED -> {"escrow_status", "logistics_status", "collection_status"}
      [] stage = IN_TRANSIT -> {"shipment_status", "delivery_scheduled"}
      [] stage = DELIVERED -> {"receipt_status", "payment_status", "escrow_status"}
      [] OTHER -> {}

\* a deal group none of whose fields has been looked at
blankDealGroup(status) ==
    [status |-> status,
     active_poll |-> NoPoll, members_count |-> 4,
     target_price_per_kg |-> 0, current_offer |-> 0,
     total_quantity_kg |-> 1000, confirmed_quantity_kg |-> 899,
     escrow_status |-> UndefV, logistics_status |-> UndefV,
     collection_status |-> UndefV, shipment_status |-> UndefV,
     delivery_scheduled |-> FALSE, receipt_status |-> UndefV,
     payment_status |-> UndefV]

\* the engine's mutable fields as one value, for the methods below
this ==
    [dealGroup |-> dealGroup, read |-> read, role |-> userRole,
     currentStage |-> currentStage, stageHistory |-> stageHistory,
     pendingActions |-> pendingActions, nextId |-> nextId,
     timeouts |-> timeouts, trackers |-> trackers, stateChanges |-> stateChanges]

become(e) ==
    /\ dealGroup' = e.dealGroup
    /\ read' = e.read
    /\ userRole' = e.role
    /\ currentStage' = e.currentStage
    /\ stageHistory' = e.stageHistory
    /\ pendingActions' = e.pendingActions
    /\ nextId' = e.nextId
    /\ timeouts' = e.timeouts
    /\ trackers' = e.trackers
    /\ stateChanges' = e.stateChanges

\* the engines e may be once the fields its current stage reads have values
resolve(e) ==
    LET new == stageReads(e.currentStage) \ e.read
        opt(f) == IF f \in new THEN FieldDomain[f] ELSE {e.dealGroup[f]}
    IN  { [e EXCEPT !.dealGroup = dg, !.read = @ \cup new] :
            dg \in [status : {e.dealGroup.status},
                    active_poll : opt("active_poll"),
                    members_count : opt("members_count"),
                    target_price_per_kg : opt("target_price_per_kg"),
                    current_offer : opt("current_offer"),
                    total_quantity_kg : opt("total_quantity_kg"),
                    confirmed_quantity_kg : opt("confirmed_quantity_kg"),
                    escrow_status : opt("escrow_status"),
                    logistics_status : opt("logistics_status"),
                    collection_status : opt("collection_status"),
                    shipment_status : opt("shipment_status"),
                    delivery_scheduled : opt("delivery_scheduled"),
                    receipt_status : opt("receipt_status"),
                    payment_status : opt("payment_status")] }

\* (totalVotes / requiredVotes) >= 0.75, with `|| 0` and `|| 1`
checkPollConsensus(dg) ==
    /\ dg.active_poll.present
    /\ LET totalVotes == dg.active_poll.total_votes
           requiredVotes == IF dg.members_count = 0 THEN 1 ELSE dg.members_count
       IN  4 * totalVotes >= 3 * requiredVotes

\* Math.abs(currentOffer - targetPrice) / targetPrice <= 0.1
checkPriceAgreement(dg) ==
    LET targetPrice == dg.target_price_per_kg
        currentOffer == dg.current_offer
        diff == IF currentOffer >= targetPrice THEN currentOffer - targetPrice
                ELSE targetPrice - currentOffer
    IN  /\ targetPrice # 0
        /\ currentOffer # 0
        /\ 10 * diff <= targetPrice

\* confirmedQuantity >= requiredQuantity * 0.9
checkQuantityConfirmed(dg) ==
    10 * dg.confirmed_quantity_kg >= 9 * dg.total_quantity_kg

checkEscrowConfirmed(dg) == dg.escrow_status = "CONFIRMED"
checkLogisticsReady(dg) == dg.logistics_status = "READY"
checkCollectionConfirmed(dg) == dg.collection_status = "CONFIRMED"
checkShipmentConfirmed(dg) == dg.shipment_status = "CONFIRMED"
checkDeliveryScheduled(dg) == dg.delivery_scheduled = TRUE
checkReceiptVerified(dg) == dg.receipt_status = "VERIFIED"
checkPaymentCompleted(dg) == dg.payment_status = "COMPLETED"
checkEscrowCleared(dg) == dg.escrow_status = "RELEASED"

\* a faulty variant: a condition without an evaluator counts as met
checkCondition_unknownPasses(dg, condition) ==
    CASE condition = "poll_consensus" -> checkPollConsensus(dg)
      [] condition = "price_agreement" -> checkPriceAgreement(dg)
      [] condition = "quantity_confirmed" -> checkQuantityConfirmed(dg)
      [] condition = "escrow_confirmed" -> checkEscrowConfirmed(dg)
      [] condition = "logistics_ready" -> checkLogisticsReady(dg)
      [] condition = "collection_confirmed" -> checkCollectionConfirmed(dg)
      [] condition = "shipment_confirmed" -> checkShipmentConfirmed(dg)
      [] condition = "delivery_scheduled" -> checkDeliveryScheduled(dg)
      [] condition = "receipt_verified" -> checkReceiptVerified(dg)
      [] condition = "payment_completed" -> checkPaymentCompleted(dg)
      [] condition = "escrow_cleared" -> checkEscrowCleared(dg)
      [] OTHER -> TRUE

\* one case of the switch in checkStageConditions
checkCondition(dg, condition) ==
    CASE condition = "poll_consensus" -> checkPollConsensus(dg)
      [] condition = "price_agreement" -> checkPriceAgreement(dg)
      [] condition = "quantity_confirmed" -> checkQuantityConfirmed(dg)
      [] condition = "escrow_confirmed" -> checkEscrowConfirmed(dg)
      [] condition = "logistics_ready" -> checkLogisticsReady(dg)
      [] condition = "collection_confirmed" -> checkCollectionConfirmed(dg)
      [] condition = "shipment_confirmed" -> checkShipmentConfirmed(dg)
      [] condition = "delivery_scheduled" -> checkDeliveryScheduled(dg)
      [] condition = "receipt_verified" -> checkReceiptVerified(dg)
      [] condition = "payment_completed" -> checkPaymentCompleted(dg)
      [] condition = "escrow_cleared" -> checkEscrowCleared(dg)
      [] OTHER -> FALSE

checkStageConditions(dg, conditions) ==
    \A i \in 1..Len(conditions) : checkCondition(dg, conditions[i])

\* onStateChange(this.currentStage, this.stageHistory)
onStateChange(e) ==
    [e EXCEPT !.stateChanges =
        Append(@, [stage |-> e.currentStage, historyLength |-> Len(e.stageHistory)])]

\* the action gets an id of its own, is pushed and onActionRequired is called
addPendingAction(e, type, priority) ==
    [e EXCEPT !.pendingActions =
                 Append(@, [id |-> e.nextId, type |-> type,
                            priority |-> priority, status |-> "pending"]),
              !.nextId = @ + 1]

\* the stable sort of pendingActions by priority, high first
checkPendingActions(e) ==
    [e EXCEPT !.pendingActions =
        SelectSeq(@, LAMBDA a : a.priority = "high")
        \o SelectSeq(@, LAMBDA a : a.priority = "medium")
        \o SelectSeq(@, LAMBDA a : a.priority = "low")]

\* setTimeout(callback, delay): the callback runs after those due no later
setTimeout(e, callback, delay) ==
    [e EXCEPT !.timeouts =
        SelectSeq(@, LAMBDA t : t.delay <= delay)
        \o <<[callback |-> callback, delay |-> delay]>>
        \o SelectSeq(@, LAMBDA t : t.delay > delay)]

RECURSIVE analyzeCurrentStage(_)
RECURSIVE executeAutoActions(_, _)

\* the stage moves on and the new stage is analyzed at once
progressToNextStage(e) ==
    IF e.currentStage \notin DOMAIN automationRules THEN {e}
    ELSE LET nextStage == automationRules[e.currentStage].nextStage
             pushed == [e EXCEPT !.stageHistory = Append(@, e.currentStage)]
             moved == [pushed EXCEPT !.currentStage = nextStage]
         IN  analyzeCurrentStage(onStateChange(moved))

handlePollExpiry(e) ==
    IF checkPollConsensus(e.dealGroup) THEN progressToNextStage(e)
    ELSE {addPendingAction(e, "POLL_EXPIRED_NO_CONSENSUS", "high")}

notifyPollDeadline(e) == addPendingAction(e, "POLL_DEADLINE_APPROACHING", "high")

checkPollStatus(e) ==
    IF ~e.dealGroup.active_poll.present THEN {e}
    ELSE IF e.dealGroup.active_poll.expires = "expired" THEN handlePollExpiry(e)
    ELSE IF e.dealGroup.active_poll.expires = "near" THEN {notifyPollDeadline(e)}
    ELSE {e}

suggestCounterOffers(e) ==
    IF e.role # "FARMER" THEN e
    ELSE IF e.dealGroup.current_offer = 0 THEN e
    ELSE addPendingAction(e, "COUNTER_OFFER_SUGGESTION", "high")

performMarketAnalysis(e) == setTimeout(e, "market_analysis", 2000)
assignLogisticsHub(e) == setTimeout(e, "assign_logistics_hub", 1500)
createEscrowContract(e) == setTimeout(e, "create_escrow_contract", 2000)
notifyBuyer(e) == addPendingAction(e, "BUYER_NOTIFICATION", "medium")
\* setInterval(..., 30000), never cleared
trackShipment(e) == [e EXCEPT !.trackers = @ + 1]
updateStatus(e) == onStateChange(e)
coordinateDelivery(e) == setTimeout(e, "coordinate_delivery", 1000)
confirmReceipt(e) == setTimeout(e, "confirm_receipt", 1500)
processPayment(e) == setTimeout(e, "process_payment", 2000)
releaseEscrow(e) == setTimeout(e, "release_escrow", 1500)

\* one case of the switch in executeAutoActions
executeAutoAction(e, action) ==
    CASE action = "check_poll_status" -> checkPollStatus(e)
      [] action = "suggest_counter_offers" -> {suggestCounterOffers(e)}
      [] action = "market_analysis" -> {performMarketAnalysis(e)}
      [] action = "assign_logistics_hub" -> {assignLogisticsHub(e)}
      [] action = "create_escrow_contract" -> {createEscrowContract(e)}
      [] action = "notify_buyer" -> {notifyBuyer(e)}
      [] action = "track_shipment" -> {trackShipment(e)}
      [] action = "update_status" -> {updateStatus(e)}
      [] action = "coordinate_delivery" -> {coordinateDelivery(e)}
      [] action = "confirm_receipt" -> {confirmReceipt(e)}
      [] action = "process_payment" -> {processPayment(e)}
      [] action = "release_escrow" -> {releaseEscrow(e)}
      [] OTHER -> {e}

\* actions.forEach(...), on each of the engines es the deal group allows
executeAutoActions(es, actions) ==
    IF Len(actions) = 0 THEN es
    ELSE executeAutoActions(UNION { executeAutoAction(e, Head(actions)) : e \in es },
                            Tail(actions))

\* analyzeCurrentStage once the fields of the stage have their values
analyzeResolved(e) ==
    LET stageRules == automationRules[e.currentStage]
    IN  IF checkStageConditions(e.dealGroup, stageRules.conditions)
        THEN progressToNextStage(e)
        ELSE { checkPendingActions(a) : a \in executeAutoActions({e}, stageRules.autoActions) }

analyzeCurrentStage(e) ==
    IF e.currentStage \notin DOMAIN automationRules THEN {e}
    ELSE UNION { analyzeResolved(r) : r \in resolve(e) }

\* a faulty variant: the callback of releaseEscrow leaves escrow_status alone
runTimeout_escrowNotReleased(e, callback) ==
    LET wrote(f, v) == [e EXCEPT !.dealGroup[f] = v, !.read = @ \cup {f}]
    IN  CASE callback = "market_analysis" ->
               addPendingAction(e, "MARKET_INSIGHTS", "medium")
          [] callback = "assign_logistics_hub" ->
               addPendingAction(wrote("logistics_status", "READY"), "HUB_ASSIGNED", "high")
          [] callback = "create_escrow_contract" ->
               addPendingAction(wrote("escrow_status", "PENDING"), "ESCROW_CONTRACT_READY", "high")
          [] callback = "coordinate_delivery" ->
               addPendingAction(wrote("delivery_scheduled", TRUE), "DELIVERY_SCHEDULED", "high")
          [] callback = "confirm_receipt" ->
               addPendingAction(wrote("receipt_status", "VERIFIED"), "RECEIPT_VERIFIED", "high")
          [] callback = "process_payment" ->
               addPendingAction(wrote("payment_status", "COMPLETED"), "PAYMENT_COMPLETED", "high")
          [] OTHER ->
               addPendingAction(e, "ESCROW_RELEASED", "high")

\* the body of a setTimeout callback: the deal group is written and a
\* pending action added
runTimeout(e, callback) ==
    LET wrote(f, v) == [e EXCEPT !.dealGroup[f] = v, !.read = @ \cup {f}]
    IN  CASE callback = "market_analysis" ->
               addPendingAction(e, "MARKET_INSIGHTS", "medium")
          [] callback = "assign_logistics_hub" ->
               addPendingAction(wrote("logistics_status", "READY"), "HUB_ASSIGNED", "high")
          [] callback = "create_escrow_contract" ->
               addPendingAction(wrote("escrow_status", "PENDING"), "ESCROW_CONTRACT_READY", "high")
          [] callback = "coordinate_delivery" ->
               addPendingAction(wrote("delivery_scheduled", TRUE), "DELIVERY_SCHEDULED", "high")
          [] callback = "confirm_receipt" ->
               addPendingAction(wrote("receipt_status", "VERIFIED"), "RECEIPT_VERIFIED", "high")
          [] callback = "process_payment" ->
               addPendingAction(wrote("payment_status", "COMPLETED"), "PAYMENT_COMPLETED", "high")
          [] OTHER ->
               addPendingAction(wrote("escrow_status", "RELEASED"), "ESCROW_RELEASED", "high")

\* the body of the interval trackShipment starts
runTracker(e) ==
    onStateChange([e EXCEPT !.dealGroup.shipment_status = "IN_TRANSIT",
                            !.read = @ \cup {"shipment_status"}])

\* `dealGroup?.status || 'NEGOTIATING'`
initialStage(status) == IF truthy(status) THEN status ELSE NEGOTIATING

EngInit ==
    /\ constructed = FALSE
    /\ dealGroup = blankDealGroup(UndefV)
    /\ read = {}
    /\ userRole = "FARMER"
    /\ currentStage = NEGOTIATING
    /\ stageHistory = <<>>
    /\ pendingActions = <<>>
    /\ nextId = 1
    /\ workflowTimer = FALSE
    /\ autoProgressEnabled = TRUE
    /\ timeouts = <<>>
    /\ trackers = 0
    /\ stateChanges = <<>>
    /\ ticks = 0

\* new WorkflowEngine(dealGroup, user, onStateChange, onActionRequired):
\* the constructor analyzes the first stage and starts the automation timer
construct(status, r) ==
    /\ ~constructed
    /\ constructed' = TRUE
    /\ \E e \in analyzeCurrentStage(
                    [this EXCEPT !.dealGroup = blankDealGroup(status),
                                 !.role = r,
                                 !.currentStage = initialStage(status)]) :
          become(e)
    /\ workflowTimer' = TRUE
    /\ autoProgressEnabled' = TRUE
    /\ UNCHANGED ticks
    /\ UNCHANGED <<apiVars, sessVars, formVars, extVars>>

\* a faulty variant: the callback without its test of autoProgressEnabled
automationTick_ignoresFlag ==
    /\ constructed
    /\ workflowTimer
    /\ timeouts = <<>>
    /\ ticks < MaxTicks
    /\ ticks' = ticks + 1
    /\ \E e \in analyzeCurrentStage(this) : become(e)
    /\ UNCHANGED <<constructed, workflowTimer, autoProgressEnabled>>
    /\ UNCHANGED <<apiVars, sessVars, formVars, extVars>>

\* the callback of the automation timer, every 30000 ms
automationTick ==
    /\ constructed
    /\ workflowTimer
    /\ timeouts = <<>>
    /\ ticks < MaxTicks
    /\ ticks' = ticks + 1
    /\ IF autoProgressEnabled
       THEN \E e \in analyzeCurrentStage(this) : become(e)
       ELSE become(this)
    /\ UNCHANGED <<constructed, workflowTimer, autoProgressEnabled>>
    /\ UNCHANGED <<apiVars, sessVars, formVars, extVars>>

\* the setTimeout callback due first runs
timeoutFires ==
    /\ constructed
    /\ timeouts # <<>>
    /\ become(runTimeout([this EXCEPT !.timeouts = Tail(@)], Head(timeouts).callback))
    /\ UNCHANGED <<constructed, workflowTimer, autoProgressEnabled, ticks>>
    /\ UNCHANGED <<apiVars, sessVars, formVars, extVars>>

\* the callback of one of trackShipment's intervals, every 30000 ms
trackerFires ==
    /\ constructed
    /\ trackers > 0
    /\ timeouts = <<>>
    /\ ticks < MaxTicks
    /\ ticks' = ticks + 1
    /\ become(runTracker(this))
    /\ UNCHANGED <<constructed, workflowTimer, autoProgressEnabled>>
    /\ UNCHANGED <<apiVars, sessVars, formVars, extVars>>

\* time passes: the poll's deadline comes nearer than two hours, then passes
clockAdvances ==
    /\ constructed
    /\ "active_poll" \in read
    /\ dealGroup.active_poll.present
    /\ dealGroup.active_poll.expires # "expired"
    /\ dealGroup' = [dealGroup EXCEPT !.active_poll.expires =
                        IF @ = "far" THEN "near" ELSE "expired"]
    /\ UNCHANGED <<constructed, read, userRole, currentStage, stageHistory,
                   pendingActions, nextId, workflowTimer, autoProgressEnabled,
                   timeouts, trackers, stateChanges, ticks>>
    /\ UNCHANGED <<apiVars, sessVars, formVars, extVars>>

setAutoProgress(enabled) ==
    /\ constructed
    /\ autoProgressEnabled' = enabled
    /\ UNCHANGED <<constructed, dealGroup, read, userRole, currentStage, stageHistory,
                   pendingActions, nextId, workflowTimer, timeouts, trackers,
                   stateChanges, ticks>>
    /\ UNCHANGED <<apiVars, sessVars, formVars, extVars>>

\* destroy(): stopAutomationTimer clears the automation timer
destroy ==
    /\ constructed
    /\ workflowTimer' = FALSE
    /\ UNCHANGED <<constructed, dealGroup, read, userRole, currentStage, stageHistory,
                   pendingActions, nextId, autoProgressEnabled, timeouts, trackers,
                   stateChanges, ticks>>
    /\ UNCHANGED <<apiVars, sessVars, formVars, extVars>>

-----------------------------------------------------------------------------
(* AIAgentSystem: the conversation context.                                *)

\* the most entries the model lets addToContext push
MaxAdds == 53
\* the most stage-guidance messages the model lets the agent generate
MaxGuidance == 1

\* `if (this.conversationContext.length > 50)` and `slice(-50)`
ContextLimit == 50

\* the stages responseTemplates.stageGuidance has templates for
stageGuidance == {NEGOTIATING, ACCEPTED, IN_TRANSIT, DELIVERED}

AiInit ==
    /\ aiConstructed = FALSE
    /\ conversationContext = <<>>
    /\ ctxAdded = 0
    /\ generated = <<>>
    /\ aiDestroyed = FALSE
    /\ aiClock = 0
    /\ stamps = {}
    /\ guidanceTimes = <<>>
    /\ aiNotified = {}
    /\ notifications = <<>>

\* a faulty variant: the first entries are kept, not the last
addToContext_keepsOldest(context, type, seq) ==
    LET pushed == Append(context, [type |-> type, seq |-> seq])
    IN  IF Len(pushed) > ContextLimit
        THEN SubSeq(pushed, 1, ContextLimit)
        ELSE pushed

\* addToContext(type, data): the entry (its data and timestamp stand as the
\* number seq of the push) is pushed and the last 50 entries are kept
addToContext(context, type, seq) ==
    LET pushed == Append(context, [type |-> type, seq |-> seq])
    IN  IF Len(pushed) > ContextLimit
        THEN SubSeq(pushed, Len(pushed) - ContextLimit + 1, Len(pushed))
        ELSE pushed

\* the timestamps of the entries the context still holds
held(context, st) ==
    {s \in st : \E i \in 1..Len(context) : context[i].seq = s.seq}

\* new AIAgentSystem(...): initializeAI gives out the welcome message
constructAgent ==
    /\ ~aiConstructed
    /\ aiConstructed' = TRUE
    /\ conversationContext' = <<>>
    /\ generated' = Append(generated, "ai_greeting")
    /\ UNCHANGED <<ctxAdded, aiDestroyed, aiClock, stamps, guidanceTimes, aiNotified,
                   notifications>>
    /\ UNCHANGED <<coreVars, otherThanAi>>

\* processUserMessage(userMessage): the message, then the response computed
\* for it, are added to the context
processUserMessage ==
    /\ aiConstructed
    /\ ctxAdded + 2 <= MaxAdds
    /\ conversationContext' =
          addToContext(addToContext(conversationContext, "user_message", ctxAdded + 1),
                       "ai_response", ctxAdded + 2)
    /\ ctxAdded' = ctxAdded + 2
    /\ stamps' = held(conversationContext', stamps)
    /\ UNCHANGED <<aiConstructed, generated, aiDestroyed, aiClock, guidanceTimes,
                   aiNotified, notifications>>
    /\ UNCHANGED <<coreVars, otherThanAi>>

\* generateStageGuidance(stage): nothing for a stage without templates
generateStageGuidance(stage) ==
    /\ aiConstructed
    /\ ctxAdded + 1 <= MaxAdds
    /\ Len(SelectSeq(generated, LAMBDA m : m = "ai_stage_guidance")) < MaxGuidance
    /\ IF stage \in stageGuidance
       THEN /\ generated' = Append(generated, "ai_stage_guidance")
            /\ conversationContext' =
                  addToContext(conversationContext, "stage_guidance", ctxAdded + 1)
            /\ ctxAdded' = ctxAdded + 1
            /\ stamps' = held(conversationContext',
                              stamps \cup {[seq |-> ctxAdded + 1, at |-> aiClock]})
            /\ guidanceTimes' = Append(guidanceTimes, aiClock)
       ELSE UNCHANGED <<conversationContext, ctxAdded, generated, stamps, guidanceTimes>>
    /\ UNCHANGED <<aiConstructed, aiDestroyed, aiClock, aiNotified, notifications>>
    /\ UNCHANGED <<coreVars, otherThanAi>>

-----------------------------------------------------------------------------
(* AIAgentSystem: the intervals of startProactiveMonitoring. The model has *)
(* the interval of checkWorkflowProgress; those of checkMarketConditions   *)
(* and checkDeadlines give out messages of other types and touch neither   *)
(* the context nor the pending actions.                                    *)

\* the most minutes the model lets pass after the intervals were started
MaxMinutes == 3

\* `const guidanceInterval = 10 * 60 * 1000`, in minutes
guidanceInterval == 10

\* shouldProvideGuidance(stage) at the minute now: the last entry of type
\* stage_guidance of the context is looked for
shouldProvideGuidance(context, st, now) ==
    LET guidance == SelectSeq(context, LAMBDA ctx : ctx.type = "stage_guidance")
    IN  IF guidance = <<>> THEN TRUE
        ELSE LET lastGuidance == guidance[Len(guidance)]
                 timestamp == (CHOOSE s \in st : s.seq = lastGuidance.seq).at
             IN  now - timestamp > guidanceInterval

\* a faulty variant: aiNotified is not looked at
handlePendingActions_everyTime(actions, flagged) ==
    LET fresh == SelectSeq(actions, LAMBDA action : action.status = "pending")
    IN  [i \in 1..Len(fresh) |-> fresh[i].id]

\* handlePendingActions(pendingActions): the ids of the actions
\* generateActionNotification is called for, in the order of the calls;
\* flagged holds the ids of the actions whose aiNotified is true
handlePendingActions(actions, flagged) ==
    LET fresh == SelectSeq(actions, LAMBDA action :
                               action.status = "pending" /\ action.id \notin flagged)
    IN  [i \in 1..Len(fresh) |-> fresh[i].id]

\* the callback of the first interval, every 60000 ms: the engine is asked
\* for its stage and its pending actions
checkWorkflowProgress ==
    /\ aiConstructed
    /\ constructed
    /\ aiClock < MaxMinutes
    /\ aiClock' = aiClock + 1
    /\ LET now == aiClock + 1
           guides == /\ shouldProvideGuidance(conversationContext, stamps, now)
                     /\ currentStage \in stageGuidance
           told == IF Len(pendingActions) > 0
                   THEN handlePendingActions(pendingActions, aiNotified)
                   ELSE <<>>
       IN  /\ guides => ctxAdded + 1 <= MaxAdds
           /\ IF guides
              THEN /\ conversationContext' =
                         addToContext(conversationContext, "stage_guidance", ctxAdded + 1)
                   /\ ctxAdded' = ctxAdded + 1
                   /\ stamps' = held(conversationContext',
                                     stamps \cup {[seq |-> ctxAdded + 1, at |-> now]})
                   /\ guidanceTimes' = Append(guidanceTimes, now)
              ELSE UNCHANGED <<conversationContext, ctxAdded, stamps, guidanceTimes>>
           /\ generated' = generated
                              \o (IF guides THEN <<"ai_stage_guidance">> ELSE <<>>)
                              \o [i \in 1..Len(told) |-> "ai_action_notification"]
           /\ notifications' = notifications \o told
           /\ aiNotified' = aiNotified \cup {told[i] : i \in 1..Len(told)}
    /\ UNCHANGED <<aiConstructed, aiDestroyed>>
    /\ UNCHANGED <<coreVars, otherThanAi>>

\* AIAgentSystem.destroy(): the context is emptied, no interval is cleared
destroyAgent ==
    /\ aiConstructed
    /\ aiDestroyed' = TRUE
    /\ conversationContext' = <<>>
    /\ stamps' = {}
    /\ UNCHANGED <<aiConstructed, ctxAdded, generated, aiClock, guidanceTimes,
                   aiNotified, notifications>>
    /\ UNCHANGED <<coreVars, otherThanAi>>

-----------------------------------------------------------------------------
(* GroupRoom.jsx: fetchAll and the timeline it builds.                     *)

\* the most chat messages the chat endpoint returns
MaxChat == 2
\* the most items the negotiation-history endpoint returns
MaxHistory == 2
\* the most calls of fetchAll the model follows
MaxFetches == 2

\* group.id of the group the room shows, and the id of another group
GroupId == 7
OtherGroupId == 8

\* the ids the backend gives its rows and the instants of their timestamps
BackendIds == {1, 2}
Instants == {1, 2}

\* the chat endpoint's messages: rows of one table, so no id twice
ChatItems == [id : BackendIds, created_at : Instants]
ChatLists ==
    { c \in UNION { [1..n -> ChatItems] : n \in 0..MaxChat } :
        \A i, j \in 1..Len(c) : i # j => c[i].id # c[j].id }

\* the items of the negotiation history: negotiation messages and polls are
\* rows of two tables, each with ids of its own; other items are not shown
HistoryItems ==
    [type : {"negotiation_message", "poll", "offer"}, id : BackendIds, timestamp : Instants]

RECURSIVE flatten(_)
\* Object.values(history).forEach(dateGroup => ... concat(dateGroup))
flatten(history) ==
    IF history = <<>> THEN <<>> ELSE Head(history) \o flatten(Tail(history))

RECURSIVE DateGroups(_)
\* the histories of n items, grouped by date
DateGroups(n) ==
    {<<>>} \cup
    UNION { { <<g>> \o rest : rest \in DateGroups(n - Len(g)) } :
            g \in UNION { [1..k -> HistoryItems] : k \in 1..n } }
Histories ==
    { h \in DateGroups(MaxHistory) :
        LET items == flatten(h)
        IN  \A i, j \in 1..Len(items) :
              i # j => <<items[i].type, items[i].id>> # <<items[j].type, items[j].id>> }

\* the polls of /api/deals/my-polls/
PollItems ==
    { [id |-> 1, deal_group |-> GroupId, is_active |-> TRUE],
      [id |-> 2, deal_group |-> GroupId, is_active |-> FALSE],
      [id |-> 3, deal_group |-> OtherGroupId, is_active |-> TRUE] }

\* what the five requests of one fetchAll come back with: failed is whether
\* the chat or the members request failed; a failed polls, logistics or
\* history request is caught and stands as [], null, null
RoomResponse(chat, mems, polls, logisticsData, history) ==
    [failed |-> FALSE, msgs |-> chat, mems |-> mems, polls |-> polls,
     logisticsData |-> logisticsData, negotiationHistory |-> history]
FailedResponse ==
    [failed |-> TRUE, msgs |-> <<>>, mems |-> <<>>, polls |-> <<>>,
     logisticsData |-> NullV, negotiationHistory |-> <<>>]

\* the responses that differ in the chat messages and the history
TimelineResponses ==
    { RoomResponse(c, <<"ravi">>, <<>>, NullV, h) : c \in ChatLists, h \in Histories }

\* the responses of a room whose chat grows and whose poll opens and closes
RoomResponses ==
    {FailedResponse} \cup
    { RoomResponse(c, m, p, l, h) :
        c \in { <<>>,
                <<[id |-> 1, created_at |-> 1]>>,
                <<[id |-> 1, created_at |-> 1], [id |-> 2, created_at |-> 2]>> },
        m \in { <<>>, <<"ravi">> },
        p \in { <<>>, << [id |-> 3, deal_group |-> OtherGroupId, is_active |-> TRUE],
                         [id |-> 1, deal_group |-> GroupId, is_active |-> TRUE] >> },
        l \in { NullV, "hub" },
        h \in { <<>>, << <<[type |-> "poll", id |-> 1, timestamp |-> 2]>> >> } }

\* the entry made of a chat message
chatEntry(msg) ==
    [id |-> "chat_" \o ToString(msg.id), timestamp |-> msg.created_at, type |-> "chat"]

\* the entry made of a history item
historyEntry(msg) ==
    [id |-> "history_" \o ToString(msg.id), timestamp |-> msg.timestamp,
     type |-> "negotiation"]

\* allMessages before the sort: the chat messages, then the negotiation
\* messages and polls of the flattened history
allMessages(chatMessages, allHistoryMessages) ==
    [i \in 1..Len(chatMessages) |-> chatEntry(chatMessages[i])]
    \o LET shown == SelectSeq(allHistoryMessages,
                              LAMBDA m : m.type \in {"negotiation_message", "poll"})
       IN  [i \in 1..Len(shown) |-> historyEntry(shown[i])]

RECURSIVE sort_newestFirst(_)
\* a faulty variant: the comparator the other way round
sort_newestFirst(entries) ==
    IF entries = <<>> THEN <<>>
    ELSE LET rest == sort_newestFirst(SubSeq(entries, 1, Len(entries) - 1))
             last == entries[Len(entries)]
         IN  SelectSeq(rest, LAMBDA e : e.timestamp >= last.timestamp)
             \o <<last>>
             \o SelectSeq(rest, LAMBDA e : e.timestamp < last.timestamp)

RECURSIVE sort(_)
\* allMessages.sort((a, b) => timeA - timeB): stable, by timestamp
sort(entries) ==
    IF entries = <<>> THEN <<>>
    ELSE LET rest == sort(SubSeq(entries, 1, Len(entries) - 1))
             last == entries[Len(entries)]
         IN  SelectSeq(rest, LAMBDA e : e.timestamp <= last.timestamp)
             \o <<last>>
             \o SelectSeq(rest, LAMBDA e : e.timestamp > last.timestamp)

\* the null of `setPoll(activePoll || null)`
NoActivePoll == [id |-> 0, deal_group |-> 0, is_active |-> FALSE]

\* (polls || []).find(p => p.deal_group === group.id && p.is_active) || null
activePoll(polls) ==
    LET found == SelectSeq(polls, LAMBDA q : q.deal_group = GroupId /\ q.is_active)
    IN  IF found = <<>> THEN NoActivePoll ELSE found[1]

RoomInit ==
    /\ grMounted = FALSE
    /\ grMessages = <<>>
    /\ grMembers = <<>>
    /\ grPoll = NoActivePoll
    /\ grLogistics = NullV
    /\ grInput = ""
    /\ grLoading = FALSE
    /\ grPost = "none"
    /\ grInflight = {}
    /\ grIssued = 0
    /\ grApplied = <<>>

\* fetchAll() up to `await Promise.all([...])`, called by `by`
fetchAll(by) ==
    /\ grIssued < MaxFetches
    /\ grIssued' = grIssued + 1
    /\ grInflight' = grInflight \cup {[n |-> grIssued + 1, by |-> by]}

\* the effect: the first fetchAll, and the 10000 ms interval is started
mountRoom ==
    /\ ~grMounted
    /\ grMounted' = TRUE
    /\ fetchAll("effect")
    /\ UNCHANGED <<grMessages, grMembers, grPoll, grLogistics, grInput, grLoading,
                   grPost, grApplied>>
    /\ UNCHANGED <<coreVars, otherThanRoom>>

\* the interval's callback
roomIntervalFires ==
    /\ grMounted
    /\ fetchAll("interval")
    /\ UNCHANGED <<grMounted, grMessages, grMembers, grPoll, grLogistics, grInput,
                   grLoading, grPost, grApplied>>
    /\ UNCHANGED <<coreVars, otherThanRoom>>

\* typing into the message box
setInput(text) ==
    /\ grMounted
    /\ grInput' = text
    /\ UNCHANGED <<grMounted, grMessages, grMembers, grPoll, grLogistics, grLoading,
                   grPost, grInflight, grIssued, grApplied>>
    /\ UNCHANGED <<coreVars, otherThanRoom>>

\* sendMessage up to the await of its POST
sendMessage ==
    /\ grMounted
    /\ grInput # ""
    /\ ~grLoading
    /\ grPost = "none"
    /\ grLoading' = TRUE
    /\ grPost' = "send"
    /\ UNCHANGED <<grMounted, grMessages, grMembers, grPoll, grLogistics, grInput,
                   grInflight, grIssued, grApplied>>
    /\ UNCHANGED <<coreVars, otherThanRoom>>

\* vote(choice) up to the await of its POST
vote ==
    /\ grMounted
    /\ grPoll # NoActivePoll
    /\ grPost = "none"
    /\ grPost' = "vote"
    /\ UNCHANGED <<grMounted, grMessages, grMembers, grPoll, grLogistics, grInput,
                   grLoading, grInflight, grIssued, grApplied>>
    /\ UNCHANGED <<coreVars, otherThanRoom>>

\* the POST of sendMessage or vote settles: on success the room is fetched
\* again and the handler awaits that; on failure the handler ends
roomPostSettles(success) ==
    /\ grPost # "none"
    /\ grPost' = "none"
    /\ IF success
       THEN /\ fetchAll(grPost)
            /\ grInput' = IF grPost = "send" THEN "" ELSE grInput
            /\ UNCHANGED grLoading
       ELSE /\ grLoading' = IF grPost = "send" THEN FALSE ELSE grLoading
            /\ UNCHANGED <<grInput, grInflight, grIssued>>
    /\ UNCHANGED <<grMounted, grMessages, grMembers, grPoll, grLogistics, grApplied>>
    /\ UNCHANGED <<coreVars, otherThanRoom>>

\* a variant that drops the responses of a call made before the one shown
fetchAllSettles_dropsStale(f, r) ==
    /\ f \in grInflight
    /\ grInflight' = grInflight \ {f}
    /\ IF r.failed \/ (grApplied # <<>> /\ f.n < grApplied[Len(grApplied)])
       THEN UNCHANGED <<grMessages, grMembers, grPoll, grLogistics, grApplied>>
       ELSE /\ grMessages' = sort(allMessages(r.msgs, flatten(r.negotiationHistory)))
            /\ grMembers' = r.mems
            /\ grLogistics' = r.logisticsData
            /\ grPoll' = activePoll(r.polls)
            /\ grApplied' = Append(grApplied, f.n)
    /\ grLoading' = IF f.by = "send" THEN FALSE ELSE grLoading
    /\ UNCHANGED <<grMounted, grInput, grPost, grIssued>>
    /\ UNCHANGED <<coreVars, otherThanRoom>>

\* the rest of fetchAll once the five requests of call f have settled with
\* r: the four setters replace the state, or the catch leaves it as it is;
\* a sendMessage awaiting the call then ends its loading
fetchAllSettles(f, r) ==
    /\ f \in grInflight
    /\ grInflight' = grInflight \ {f}
    /\ IF r.failed
       THEN UNCHANGED <<grMessages, grMembers, grPoll, grLogistics, grApplied>>
       ELSE /\ grMessages' = sort(allMessages(r.msgs, flatten(r.negotiationHistory)))
            /\ grMembers' = r.mems
            /\ grLogistics' = r.logisticsData
            /\ grPoll' = activePoll(r.polls)
            /\ grApplied' = Append(grApplied, f.n)
    /\ grLoading' = IF f.by = "send" THEN FALSE ELSE grLoading
    /\ UNCHANGED <<grMounted, grInput, grPost, grIssued>>
    /\ UNCHANGED <<coreVars, otherThanRoom>>

-----------------------------------------------------------------------------
(* FarmerDashboard.jsx: the table of the farmer's listings and its Edit    *)
(* button.                                                                 *)

\* the most PATCH requests and the most changes of tab of one behaviour
MaxPatches == 1
MaxTabSwitches == 1
\* the most listings my-listings returns
MaxListings == 2

\* the statuses a listing comes back with
ListingStatuses == {"AVAILABLE", "GRADING", "SOLD"}
\* my-listings' responses: the i-th listing has id i
ListingLists ==
    { l \in UNION { [1..n -> [id : 1..MaxListings, status : ListingStatuses,
                              quantity_kg : {500}]] : n \in 0..MaxListings } :
        \A i \in 1..Len(l) : l[i].id = i }
\* what the farmer answers to prompt(): null is Cancel
PromptAnswers == {NullV, "", "500", "abc"}

\* a faulty variant: every listing editable
canEdit_anyStatus(listing) == TRUE

canEdit(listing) == listing.status \in {"AVAILABLE", "GRADING"}

\* the Actions cell of a listing's row
actionsCell(listing) == IF canEdit(listing) THEN "Edit" ELSE "Locked"

\* the rows of the table: none while the dashboard shows "Loading" or the
\* error, or while the groups tab is open
rows ==
    IF dashMounted /\ ~isLoading /\ dashError = NullV /\ tab = "harvest"
    THEN 1..Len(myListings) ELSE {}

DashInit ==
    /\ dashMounted = FALSE
    /\ tab = "harvest"
    /\ myListings = <<>>
    /\ dashError = NullV
    /\ isLoading = TRUE
    /\ listingFetches = 0
    /\ patches = <<>>
    /\ patchesInflight = 0
    /\ tabSwitches = 0

\* fetchData up to its await
fetchData ==
    /\ dashError' = NullV
    /\ listingFetches' = listingFetches + 1

\* the effect of the first render
mountDashboard ==
    /\ ~dashMounted
    /\ dashMounted' = TRUE
    /\ fetchData
    /\ UNCHANGED <<tab, myListings, isLoading, patches, patchesInflight, tabSwitches>>
    /\ UNCHANGED <<coreVars, otherThanDash>>

\* a click on a tab; the effect runs again when the tab changed
setTab(t) ==
    /\ dashMounted /\ ~isLoading /\ dashError = NullV
    /\ tabSwitches < MaxTabSwitches
    /\ t # tab
    /\ tab' = t
    /\ tabSwitches' = tabSwitches + 1
    /\ fetchData
    /\ UNCHANGED <<dashMounted, myListings, isLoading, patches, patchesInflight>>
    /\ UNCHANGED <<coreVars, otherThanDash>>

\* the rest of fetchData: failed is a crops or my-listings request that
\* failed
fetchDataSettles(failed, listingsData) ==
    /\ listingFetches > 0
    /\ listingFetches' = listingFetches - 1
    /\ IF failed
       THEN /\ dashError' = "Request failed"
            /\ UNCHANGED myListings
       ELSE /\ myListings' = listingsData
            /\ UNCHANGED dashError
    /\ isLoading' = FALSE
    /\ UNCHANGED <<dashMounted, tab, patches, patchesInflight, tabSwitches>>
    /\ UNCHANGED <<coreVars, otherThanDash>>

\* a click on the Edit button of row i, and the answer to the prompt
editListing(i, newQty) ==
    /\ i \in rows
    /\ actionsCell(myListings[i]) = "Edit"
    /\ Len(patches) < MaxPatches
    /\ IF newQty = NullV \/ newQty = ""
       THEN UNCHANGED <<patches, patchesInflight>>
       ELSE /\ patches' = Append(patches,
                                 [id |-> myListings[i].id,
                                  quantity_kg |-> parseInt(newQty)])
            /\ patchesInflight' = patchesInflight + 1
    /\ UNCHANGED <<dashMounted, tab, myListings, dashError, isLoading,
                   listingFetches, tabSwitches>>
    /\ UNCHANGED <<coreVars, otherThanDash>>

\* the rest of editListing
patchSettles(success) ==
    /\ patchesInflight > 0
    /\ patchesInflight' = patchesInflight - 1
    /\ IF success
       THEN fetchData
       ELSE UNCHANGED <<dashError, listingFetches>>
    /\ UNCHANGED <<dashMounted, tab, myListings, isLoading, patches, tabSwitches>>
    /\ UNCHANGED <<coreVars, otherThanDash>>

-----------------------------------------------------------------------------
(* UnifiedChat.jsx: the initial load.                                      *)

\* a response: the request failed, or it came back with nothing (null), or
\* with data
Failed == [kind |-> "failed"]
Nothing == [kind |-> "null"]
With(data) == [kind |-> "data", data |-> data]

\* the messages the chat endpoint holds: one of the buyer, one of a farmer,
\* and the AI agent's message of a poll
ChatOfBuyer == [id |-> 1, role |-> "BUYER", is_ai_agent |-> FALSE, message_type |-> "OFFER"]
ChatOfFarmer == [id |-> 2, role |-> "FARMER", is_ai_agent |-> FALSE, message_type |-> "TEXT"]
ChatOfAgent == [id |-> 3, role |-> "AGENT", is_ai_agent |-> TRUE, message_type |-> "POLL"]
\* a poll message that is not the AI agent's, its content the poll as JSON,
\* and a logistics message
ChatOfPoll ==
    [id |-> 4, role |-> "SYSTEM", is_ai_agent |-> FALSE, message_type |-> "POLL",
     content |-> [id |-> 21, poll_type |-> "price_offer"]]
ChatOfHub == [id |-> 5, role |-> "SYSTEM", is_ai_agent |-> FALSE, message_type |-> "LOGISTICS"]
ChatResponses ==
    { Failed, Nothing, With(<<>>), With(<<ChatOfBuyer>>),
      With(<<ChatOfFarmer, ChatOfAgent>>), With(<<ChatOfPoll, ChatOfHub>>) }

\* the items of negotiation-history's timeline
TimelineItems ==
    { [type |-> "negotiation_message", id |-> 11, sender_role |-> "BUYER"],
      [type |-> "negotiation_message", id |-> 12, sender_role |-> "AI_AGENT"],
      [type |-> "negotiation_message", id |-> 13, sender_role |-> "FARMER"],
      [type |-> "poll", id |-> 14, sender_role |-> "SYSTEM"] }
HistoryResponses ==
    { Failed, Nothing, With(<<>>) }
    \cup { With(<<item>>) : item \in TimelineItems }
    \cup { With(<<[type |-> "negotiation_message", id |-> 11, sender_role |-> "BUYER"],
                  [type |-> "poll", id |-> 14, sender_role |-> "SYSTEM"]>>) }

\* a request as authFetch is called: the path without its ids
Request(method, endpoint, pollId, body) ==
    [method |-> method, endpoint |-> endpoint, pollId |-> pollId, body |-> body]
Get(endpoint) == Request("GET", endpoint, 0, "none")

\* the chat messages a buyer sees, as fetchData filters and maps them
buyerMessages(messagesResponse) ==
    LET kept == SelectSeq(messagesResponse,
                          LAMBDA msg : msg.role = "BUYER" \/ msg.is_ai_agent)
    IN  [i \in 1..Len(kept) |->
            [id |-> kept[i].id, role |-> kept[i].role,
             message_type |-> kept[i].message_type,
             is_buyer |-> kept[i].role = "BUYER",
             is_ai_agent |-> kept[i].is_ai_agent]]

\* the message loadExistingNegotiationData makes of a timeline item, or
\* null
existingMessage(item) ==
    IF item.type = "negotiation_message" /\ item.sender_role = "BUYER"
    THEN With([id |-> item.id, role |-> "BUYER", message_type |-> "OFFER",
               is_buyer |-> TRUE, is_ai_agent |-> FALSE])
    ELSE IF item.type = "negotiation_message" /\ item.sender_role = "AI_AGENT"
    THEN With([id |-> item.id, role |-> "AGENT", message_type |-> "TEXT",
               is_buyer |-> FALSE, is_ai_agent |-> TRUE])
    ELSE IF item.type = "poll"
    THEN With([id |-> item.id, role |-> "SYSTEM", message_type |-> "SYSTEM",
               is_buyer |-> FALSE, is_ai_agent |-> FALSE])
    ELSE Nothing

\* timeline.map(...).filter(Boolean)
existingMessages(timeline) ==
    LET made == [i \in 1..Len(timeline) |-> existingMessage(timeline[i])]
        kept == SelectSeq(made, LAMBDA m : m # Nothing)
    IN  [i \in 1..Len(kept) |-> kept[i].data]

ChatInit ==
    /\ ucMounted = FALSE
    /\ ucRole = "BUYER"
    /\ ucMessages = <<>>
    /\ ucDealGroup = Nothing
    /\ ucMembers = <<>>
    /\ ucActivePoll = Nothing
    /\ ucLogistics = Nothing
    /\ ucLoading = TRUE
    /\ ucError = NullV
    /\ ucIsNegotiating = FALSE
    /\ fetchDataPc = "none"
    /\ fetchDataSees = <<>>
    /\ historyPc = "none"
    /\ offerPc = "none"
    /\ actionPc = "none"
    /\ ucRequests = <<>>

\* the first render for a user of the given role and its effects: fetchData
\* up to its first await; the closure of fetchData holds the messages of
\* this render
mountChat(role) ==
    /\ ~ucMounted
    /\ ucMounted' = TRUE
    /\ ucRole' = role
    /\ ucLoading' = TRUE
    /\ ucError' = NullV
    /\ fetchDataSees' = ucMessages
    /\ fetchDataPc' = "group"
    /\ ucRequests' = Append(ucRequests, Get("groups/{id}/"))
    /\ UNCHANGED <<ucMessages, ucDealGroup, ucMembers, ucActivePoll, ucLogistics,
                   ucIsNegotiating, historyPc, offerPc, actionPc>>
    /\ UNCHANGED <<coreVars, otherThanChat>>

\* a faulty variant: the catch of the deal-group request without its
\* return
groupSettles_noReturn(r) ==
    /\ fetchDataPc = "group"
    /\ ucError' = IF r = Failed
                  THEN "Failed to load deal group details. Please try again."
                  ELSE ucError
    /\ ucDealGroup' = IF r = Failed \/ r = Nothing THEN ucDealGroup ELSE r
    /\ fetchDataPc' = "chat"
    /\ IF ucRole = "BUYER" /\ r # Nothing /\ r # Failed
       THEN /\ historyPc' = "awaiting"
            /\ ucRequests' = ucRequests \o
                  <<Get("groups/{id}/chat/"),
                    Get("groups/{id}/negotiation-history/")>>
       ELSE /\ UNCHANGED historyPc
            /\ ucRequests' = Append(ucRequests, Get("groups/{id}/chat/"))
    /\ UNCHANGED <<ucMounted, ucRole, ucMessages, ucMembers, ucActivePoll,
                   ucLogistics, ucLoading, ucIsNegotiating, fetchDataSees,
                   offerPc, actionPc>>
    /\ UNCHANGED <<coreVars, otherThanChat>>

\* fetchData from the deal-group response to the next await; a buyer's
\* render with the deal group runs the effect that calls
\* loadExistingNegotiationData
groupSettles(r) ==
    /\ fetchDataPc = "group"
    /\ IF r = Failed
       THEN /\ ucError' = "Failed to load deal group details. Please try again."
            /\ ucLoading' = FALSE
            /\ fetchDataPc' = "done"
            /\ UNCHANGED <<ucDealGroup, historyPc, ucRequests>>
       ELSE /\ ucDealGroup' = IF r = Nothing THEN ucDealGroup ELSE r
            /\ fetchDataPc' = "chat"
            /\ IF ucRole = "BUYER" /\ r # Nothing
               THEN /\ historyPc' = "awaiting"
                    /\ ucRequests' = ucRequests \o
                          <<Get("groups/{id}/chat/"),
                            Get("groups/{id}/negotiation-history/")>>
               ELSE /\ UNCHANGED historyPc
                    /\ ucRequests' = Append(ucRequests, Get("groups/{id}/chat/"))
            /\ UNCHANGED <<ucError, ucLoading>>
    /\ UNCHANGED <<ucMounted, ucRole, ucMessages, ucMembers, ucActivePoll,
                   ucLogistics, ucIsNegotiating, fetchDataSees, offerPc, actionPc>>
    /\ UNCHANGED <<coreVars, otherThanChat>>

\* fetchData from the chat response to the next await
chatSettles(r) ==
    /\ fetchDataPc = "chat"
    /\ ucMessages' =
          IF r = Failed
          THEN IF Len(fetchDataSees) = 0 THEN <<>> ELSE ucMessages
          ELSE IF r = Nothing THEN ucMessages
          ELSE IF Len(fetchDataSees) = 0
               THEN IF ucRole = "BUYER" THEN buyerMessages(r.data) ELSE r.data
               ELSE ucMessages
    /\ IF ucRole = "BUYER"
       THEN /\ fetchDataPc' = "poll"
            /\ ucRequests' = Append(ucRequests, Get("groups/{id}/active-poll/"))
       ELSE /\ fetchDataPc' = "members"
            /\ ucRequests' = Append(ucRequests, Get("groups/{id}/members/"))
    /\ UNCHANGED <<ucMounted, ucRole, ucDealGroup, ucMembers, ucActivePoll,
                   ucLogistics, ucLoading, ucError, ucIsNegotiating,
                   fetchDataSees, historyPc, offerPc, actionPc>>
    /\ UNCHANGED <<coreVars, otherThanChat>>

\* fetchData from the members response to the next await
membersSettle(r) ==
    /\ fetchDataPc = "members"
    /\ ucMembers' = IF r = Failed THEN <<>>
                    ELSE IF r = Nothing THEN ucMembers ELSE r.data
    /\ fetchDataPc' = "poll"
    /\ ucRequests' = Append(ucRequests, Get("groups/{id}/active-poll/"))
    /\ UNCHANGED <<ucMounted, ucRole, ucMessages, ucDealGroup, ucActivePoll,
                   ucLogistics, ucLoading, ucError, ucIsNegotiating,
                   fetchDataSees, historyPc, offerPc, actionPc>>
    /\ UNCHANGED <<coreVars, otherThanChat>>

\* fetchData from the active-poll response on: to its end for a buyer, to
\* the logistics request for a farmer
pollSettles(r) ==
    /\ fetchDataPc = "poll"
    /\ IF ucRole = "BUYER"
       THEN /\ ucActivePoll' = IF r = Failed THEN Nothing ELSE r
            /\ fetchDataPc' = "done"
            /\ ucLoading' = FALSE
            /\ UNCHANGED ucRequests
       ELSE /\ ucActivePoll' = IF r = Failed THEN Nothing
                               ELSE IF r = Nothing THEN ucActivePoll ELSE r
            /\ fetchDataPc' = "logistics"
            /\ ucRequests' = Append(ucRequests, Get("groups/{id}/logistics/"))
            /\ UNCHANGED ucLoading
    /\ UNCHANGED <<ucMounted, ucRole, ucMessages, ucDealGroup, ucMembers,
                   ucLogistics, ucError, ucIsNegotiating, fetchDataSees,
                   historyPc, offerPc, actionPc>>
    /\ UNCHANGED <<coreVars, otherThanChat>>

\* fetchData from the logistics response to its end
logisticsSettles(r) ==
    /\ fetchDataPc = "logistics"
    /\ ucLogistics' = IF r = Failed THEN Nothing
                      ELSE IF r = Nothing THEN ucLogistics ELSE r
    /\ fetchDataPc' = "done"
    /\ ucLoading' = FALSE
    /\ UNCHANGED <<ucMounted, ucRole, ucMessages, ucDealGroup, ucMembers,
                   ucActivePoll, ucError, ucIsNegotiating, fetchDataSees,
                   historyPc, offerPc, actionPc, ucRequests>>
    /\ UNCHANGED <<coreVars, otherThanChat>>

\* the rest of loadExistingNegotiationData
historySettles(r) ==
    /\ historyPc = "awaiting"
    /\ historyPc' = "done"
    /\ ucMessages' =
          IF r = Failed \/ r = Nothing THEN ucMessages
          ELSE IF Len(existingMessages(r.data)) > 0
               THEN existingMessages(r.data)
               ELSE ucMessages
    /\ UNCHANGED <<ucMounted, ucRole, ucDealGroup, ucMembers, ucActivePoll,
                   ucLogistics, ucLoading, ucError, ucIsNegotiating,
                   fetchDataPc, fetchDataSees, offerPc, actionPc, ucRequests>>
    /\ UNCHANGED <<coreVars, otherThanChat>>

-----------------------------------------------------------------------------
(* UnifiedChat.jsx: the buyer's offers.                                    *)

\* the most offers a buyer submits and the most actions a farmer takes
MaxOffers == 2
MaxActions == 2

\* the requests sent so far to the given endpoints
sent(endpoints) == { i \in 1..Len(ucRequests) : ucRequests[i].endpoint \in endpoints }

\* the message of the n-th offer, and the AI agent's message after it
buyerMessage(n) ==
    [id |-> 100 + 2 * n, role |-> "BUYER", message_type |-> "OFFER",
     is_buyer |-> TRUE, is_ai_agent |-> FALSE, text |-> "Buyer Offer"]
aiResponse(n) ==
    [id |-> 101 + 2 * n, role |-> "AGENT", message_type |-> "TEXT",
     is_buyer |-> FALSE, is_ai_agent |-> TRUE, text |-> "AI Agent"]
offerErrorMessage(n) ==
    [id |-> 101 + 2 * n, role |-> "AGENT", message_type |-> "TEXT",
     is_buyer |-> FALSE, is_ai_agent |-> TRUE,
     text |-> "Sorry, I encountered an error processing your offer"]

\* how many offers were submitted
offers == Cardinality(sent({"groups/{id}/submit-offer/"}))

\* a click on Send Offer with a price above 0: handleBuyerOffer up to its
\* await; the button is disabled while isNegotiating
handleBuyerOffer(offerPrice) ==
    /\ ucMounted /\ ~ucLoading /\ ucError = NullV
    /\ ucRole = "BUYER"
    /\ ~ucIsNegotiating
    /\ offerPc = "none"
    /\ offers < MaxOffers
    /\ ucIsNegotiating' = TRUE
    /\ ucMessages' = Append(ucMessages, buyerMessage(offers + 1))
    /\ ucRequests' = Append(ucRequests,
                            Request("POST", "groups/{id}/submit-offer/", 0, offerPrice))
    /\ offerPc' = "awaiting"
    /\ UNCHANGED <<ucMounted, ucRole, ucDealGroup, ucMembers, ucActivePoll,
                   ucLogistics, ucLoading, ucError, fetchDataPc, fetchDataSees,
                   historyPc, actionPc>>
    /\ UNCHANGED <<coreVars, otherThanChat>>

\* a variant that takes the offer's message back when the request failed
offerSettles_rollsBack(r) ==
    /\ offerPc = "awaiting"
    /\ offerPc' = "none"
    /\ ucMessages' =
          IF r = Failed
          THEN Append(SelectSeq(ucMessages, LAMBDA m : m # buyerMessage(offers)),
                      offerErrorMessage(offers))
          ELSE IF r = Nothing THEN ucMessages
          ELSE Append(ucMessages, aiResponse(offers))
    /\ ucIsNegotiating' = FALSE
    /\ UNCHANGED <<ucMounted, ucRole, ucDealGroup, ucMembers, ucActivePoll,
                   ucLogistics, ucLoading, ucError, fetchDataPc, fetchDataSees,
                   historyPc, actionPc, ucRequests>>
    /\ UNCHANGED <<coreVars, otherThanChat>>

\* the rest of handleBuyerOffer
offerSettles(r) ==
    /\ offerPc = "awaiting"
    /\ offerPc' = "none"
    /\ ucMessages' =
          IF r = Failed THEN Append(ucMessages, offerErrorMessage(offers))
          ELSE IF r = Nothing THEN ucMessages
          ELSE Append(ucMessages, aiResponse(offers))
    /\ ucIsNegotiating' = FALSE
    /\ UNCHANGED <<ucMounted, ucRole, ucDealGroup, ucMembers, ucActivePoll,
                   ucLogistics, ucLoading, ucError, fetchDataPc, fetchDataSees,
                   historyPc, actionPc, ucRequests>>
    /\ UNCHANGED <<coreVars, otherThanChat>>

-----------------------------------------------------------------------------
(* UnifiedChat.jsx and MessageList.jsx: the farmer's actions.              *)

\* the renderer MessageList picks for a message
renderMessage(message) ==
    IF message.is_ai_agent THEN "AIMessageRenderer"
    ELSE IF message.message_type = "POLL" THEN "renderPollMessage"
    ELSE IF message.message_type = "LOGISTICS" THEN "renderLogisticsMessage"
    ELSE "text"

\* what a button passes to onAction: pollId 0 and pollType "none" are
\* data without that field
Click(action, choice, pollId, pollType) ==
    [action |-> action, choice |-> choice, pollId |-> pollId, pollType |-> pollType]

\* the buttons of the banner of the active poll
bannerButtons ==
    IF ucActivePoll.kind # "data" THEN {}
    ELSE IF ucActivePoll.data.poll_type = "location_confirmation"
    THEN { Click("vote", c, ucActivePoll.data.id, "location_confirmation") : c \in {"YES", "NO"} }
    ELSE { Click("vote", c, ucActivePoll.data.id, "none") : c \in {"ACCEPT", "REJECT"} }

\* the buttons under a poll message
renderPollMessage(message) ==
    LET pollData == IF ucActivePoll.kind = "data" THEN ucActivePoll.data
                    ELSE message.content
        isLocationPoll == pollData.poll_type = "location_confirmation"
    IN  IF isLocationPoll
        THEN { Click("vote", c, pollData.id, "location_confirmation") : c \in {"YES", "NO"} }
        ELSE { Click("vote", c, 0, "none") : c \in {"ACCEPT", "REJECT"} }

\* the buttons under a message of the AI agent
AIMessageRenderer ==
    IF ucActivePoll.kind = "data" /\ ucActivePoll.data.poll_type = "location_confirmation"
    THEN { Click("vote", c, ucActivePoll.data.id, "location_confirmation") : c \in {"YES", "NO"} }
    ELSE { Click("vote", "ACCEPT", 0, "none"), Click("ai_help", "none", 0, "none") }

\* the buttons under a logistics message
renderLogisticsMessage ==
    { Click("confirm_collection", "none", 0, "none"),
      Click("view_hub_details", "none", 0, "none") }

\* the buttons the farmer's chat shows
buttons ==
    IF ~(ucMounted /\ ~ucLoading /\ ucError = NullV /\ ucRole = "FARMER") THEN {}
    ELSE bannerButtons
         \cup UNION { CASE renderMessage(ucMessages[i]) = "AIMessageRenderer" -> AIMessageRenderer
                        [] renderMessage(ucMessages[i]) = "renderPollMessage" ->
                               renderPollMessage(ucMessages[i])
                        [] renderMessage(ucMessages[i]) = "renderLogisticsMessage" ->
                               renderLogisticsMessage
                        [] OTHER -> {}
                      : i \in 1..Len(ucMessages) }

\* the endpoint handleAction's switch picks, "" for an action it does not
\* know
endpoint(action, data) ==
    CASE action = "vote" ->
            IF data.pollId # 0
            THEN IF data.pollType = "location_confirmation"
                 THEN "location-polls/{pollId}/vote/"
                 ELSE "polls/{pollId}/vote/"
            ELSE "groups/{id}/vote/"
      [] action = "confirm_collection" -> "groups/{id}/collection/confirm/"
      [] action = "confirm_payment" -> "groups/{id}/payment/confirm/"
      [] action = "book_shipment" -> "groups/{id}/shipment/book/"
      [] OTHER -> ""

\* how many requests handleAction has sent
actions ==
    Cardinality(sent({"location-polls/{pollId}/vote/", "polls/{pollId}/vote/",
                      "groups/{id}/vote/", "groups/{id}/collection/confirm/",
                      "groups/{id}/payment/confirm/", "groups/{id}/shipment/book/"}))

\* a click on one of the buttons: handleAction up to its await
handleAction(click) ==
    /\ click \in buttons
    /\ actionPc = "none"
    /\ actions < MaxActions
    /\ IF endpoint(click.action, click) = ""
       THEN UNCHANGED <<ucRequests, actionPc>>
       ELSE /\ ucRequests' = Append(ucRequests,
                   Request("POST", endpoint(click.action, click), click.pollId,
                           IF click.action = "vote" THEN click.choice ELSE "none"))
            /\ actionPc' = IF click.action = "vote" THEN "vote" ELSE "other"
    /\ UNCHANGED <<ucMounted, ucRole, ucMessages, ucDealGroup, ucMembers,
                   ucActivePoll, ucLogistics, ucLoading, ucError, ucIsNegotiating,
                   fetchDataPc, fetchDataSees, historyPc, offerPc>>
    /\ UNCHANGED <<coreVars, otherThanChat>>

\* handleAction from the response on: after a vote refreshActivePoll up to
\* its await, after another action the reload of the page, which leaves
\* nothing of the component
actionSettles(r) ==
    /\ actionPc \in {"vote", "other"}
    /\ IF r = Failed \/ r = Nothing
       THEN /\ actionPc' = "none"
            /\ UNCHANGED <<ucMounted, ucRole, ucMessages, ucDealGroup, ucMembers,
                           ucActivePoll, ucLogistics, ucLoading, ucError,
                           ucIsNegotiating, fetchDataPc, fetchDataSees,
                           historyPc, offerPc, ucRequests>>
       ELSE IF actionPc = "vote"
       THEN /\ actionPc' = "refresh"
            /\ ucRequests' = Append(ucRequests, Get("groups/{id}/active-poll/"))
            /\ UNCHANGED <<ucMounted, ucRole, ucMessages, ucDealGroup, ucMembers,
                           ucActivePoll, ucLogistics, ucLoading, ucError,
                           ucIsNegotiating, fetchDataPc, fetchDataSees,
                           historyPc, offerPc>>
       ELSE /\ ucMounted' = FALSE
            /\ ucRole' = "BUYER"
            /\ ucMessages' = <<>>
            /\ ucDealGroup' = Nothing
            /\ ucMembers' = <<>>
            /\ ucActivePoll' = Nothing
            /\ ucLogistics' = Nothing
            /\ ucLoading' = TRUE
            /\ ucError' = NullV
            /\ ucIsNegotiating' = FALSE
            /\ fetchDataPc' = "none"
            /\ fetchDataSees' = <<>>
            /\ historyPc' = "none"
            /\ offerPc' = "none"
            /\ actionPc' = "none"
            /\ UNCHANGED ucRequests
    /\ UNCHANGED <<coreVars, otherThanChat>>

\* the rest of refreshActivePoll, and of handleAction after it
refreshSettles(r) ==
    /\ actionPc = "refresh"
    /\ actionPc' = "none"
    /\ ucActivePoll' = IF r = Failed THEN Nothing ELSE r
    /\ UNCHANGED <<ucMounted, ucRole, ucMessages, ucDealGroup, ucMembers,
                   ucLogistics, ucLoading, ucError, ucIsNegotiating,
                   fetchDataPc, fetchDataSees, historyPc, offerPc, ucRequests>>
    /\ UNCHANGED <<coreVars, otherThanChat>>

\* the state of the components of the pages before any of them is used
ExtInit == AiInit /\ RoomInit /\ DashInit /\ ChatInit

-----------------------------------------------------------------------------
(* The specifications, one for each component.                             *)

SpecApiInit == ApiInit /\ SessInit /\ FormInit /\ EngInit /\ ExtInit
SpecApiNext ==
    \/ \E tok \in Tokens, options \in OptionsArgs : authFetch(tok, options)
    \/ fetchFails
    \/ \E r \in Responses : afterFetch(r)
    \/ afterErrorJson
    \/ afterJson
SpecApi == SpecApiInit /\ [][SpecApiNext]_vars

SpecSessionInit == ApiInit /\ SessInit /\ FormInit /\ EngInit /\ ExtInit
SpecSessionNext ==
    \/ \E r \in {"FARMER", "BUYER"} : handleRoleSelect(r)
    \/ showLogin
    \/ goBack
    \/ \E digits \in {"short", "six"} : handlePincodeChange(digits)
    \/ \E result \in {"found", "notfound", "failed"} : pincodeLookupSettles(result)
    \/ handleLogin
    \/ handleSubmit
    \/ authFetchFails
    \/ \E r \in AuthResponses : authFetchResolves(r)
    \/ authJsonSettles
    \/ logout
    \/ reload
    \/ dashboardLogout
SpecSession == SpecSessionInit /\ [][SpecSessionNext]_vars

SpecListingInit == ApiInit /\ SessInit /\ FormInit /\ EngInit /\ ExtInit
SpecListingNext ==
    \/ \E crop \in CropOptions : setSelectedCrop(crop)
    \/ \E q \in QuantityInputs : setQuantity(q)
    \/ \E grade \in GradeOptions : setSelectedGrade(grade)
    \/ submitForm
    \/ \E i \in 1..MaxPosts : listingCreated(i)
    \/ \E i \in 1..MaxPosts : listingFailed(i)
SpecListing == SpecListingInit /\ [][SpecListingNext]_vars

SpecEngineInit == ApiInit /\ SessInit /\ FormInit /\ EngInit /\ ExtInit
SpecEngineNext ==
    \/ \E status \in BackendStatuses, r \in {"FARMER", "BUYER"} : construct(status, r)
    \/ automationTick
    \/ timeoutFires
    \/ trackerFires
    \/ clockAdvances
    \/ \E enabled \in BOOLEAN : setAutoProgress(enabled)
    \/ destroy
SpecEngine == SpecEngineInit /\ [][SpecEngineNext]_vars

\* an engine made for a delivered deal; setInterval and setTimeout run
\* their callbacks when due, so a callback that stays due does run
SpecDeliveredInit == ApiInit /\ SessInit /\ FormInit /\ EngInit /\ ExtInit
SpecDeliveredNext ==
    \/ \E r \in {"FARMER", "BUYER"} : construct(DELIVERED, r)
    \/ automationTick
    \/ timeoutFires
    \/ \E enabled \in BOOLEAN : setAutoProgress(enabled)
    \/ destroy
SpecDelivered ==
    /\ SpecDeliveredInit
    /\ [][SpecDeliveredNext]_vars
    /\ WF_vars(automationTick)
    /\ WF_vars(timeoutFires)

\* the agent and the engine it was given, for a deal that is under way; the
\* user writes to the agent while its interval runs
SpecGuidanceInit == ApiInit /\ SessInit /\ FormInit /\ EngInit /\ ExtInit
SpecGuidanceNext ==
    \/ \E r \in {"FARMER", "BUYER"} : construct(IN_TRANSIT, r)
    \/ timeoutFires
    \/ constructAgent
    \/ processUserMessage
    \/ checkWorkflowProgress
    \/ destroyAgent
SpecGuidance == SpecGuidanceInit /\ [][SpecGuidanceNext]_vars

\* the agent and the engine it was given, each with its timers
SpecNotifyInit == ApiInit /\ SessInit /\ FormInit /\ EngInit /\ ExtInit
SpecNotifyNext ==
    \/ \E status \in Stages : construct(status, "FARMER")
    \/ automationTick
    \/ timeoutFires
    \/ trackerFires
    \/ constructAgent
    \/ checkWorkflowProgress
    \/ destroyAgent
SpecNotify == SpecNotifyInit /\ [][SpecNotifyNext]_vars

SpecContextInit == ApiInit /\ SessInit /\ FormInit /\ EngInit /\ ExtInit
SpecContextNext ==
    \/ constructAgent
    \/ processUserMessage
    \/ \E stage \in Stages : generateStageGuidance(stage)
SpecContext == SpecContextInit /\ [][SpecContextNext]_vars

\* the calls of fetchAll that may be awaiting their responses
Fetches == [n : 1..(MaxFetches + 1), by : {"effect", "interval", "send", "vote"}]

SpecTimelineInit == ApiInit /\ SessInit /\ FormInit /\ EngInit /\ ExtInit
SpecTimelineNext ==
    \/ mountRoom
    \/ \E f \in Fetches, r \in TimelineResponses : fetchAllSettles(f, r)
SpecTimeline == SpecTimelineInit /\ [][SpecTimelineNext]_vars

SpecRoomInit == ApiInit /\ SessInit /\ FormInit /\ EngInit /\ ExtInit
SpecRoomNext ==
    \/ mountRoom
    \/ roomIntervalFires
    \/ \E text \in {"", "hello"} : setInput(text)
    \/ sendMessage
    \/ vote
    \/ \E success \in BOOLEAN : roomPostSettles(success)
    \/ \E f \in Fetches, r \in RoomResponses : fetchAllSettles(f, r)
SpecRoom == SpecRoomInit /\ [][SpecRoomNext]_vars

SpecTableInit == ApiInit /\ SessInit /\ FormInit /\ EngInit /\ ExtInit
SpecTableNext ==
    \/ mountDashboard
    \/ \E t \in {"harvest", "groups"} : setTab(t)
    \/ \E failed \in BOOLEAN, listingsData \in ListingLists :
          fetchDataSettles(failed, listingsData)
    \/ \E i \in 1..MaxListings, newQty \in PromptAnswers : editListing(i, newQty)
    \/ \E success \in BOOLEAN : patchSettles(success)
SpecTable == SpecTableInit /\ [][SpecTableNext]_vars

\* the deal group, the members, the polls and the logistics the backend
\* answers with
GroupResponses == {Failed, Nothing, With("group")}
MembersResponses == {Failed, Nothing, With(<<"farmer1">>)}
PollResponses ==
    {Failed, Nothing,
     With([id |-> 21, poll_type |-> "price_offer"]),
     With([id |-> 22, poll_type |-> "location_confirmation"])}
LogisticsResponses == {Failed, Nothing, With("hub")}

SpecLoadInit == ApiInit /\ SessInit /\ FormInit /\ EngInit /\ ExtInit
SpecLoadNext ==
    \/ \E role \in {"BUYER", "FARMER"} : mountChat(role)
    \/ \E r \in GroupResponses : groupSettles(r)
    \/ \E r \in ChatResponses : chatSettles(r)
    \/ \E r \in MembersResponses : membersSettle(r)
    \/ \E r \in PollResponses : pollSettles(r)
    \/ \E r \in LogisticsResponses : logisticsSettles(r)
    \/ \E r \in HistoryResponses : historySettles(r)
SpecLoad == SpecLoadInit /\ [][SpecLoadNext]_vars

\* what submit-offer and the endpoints of the actions answer with
OfferResponses == {Failed, Nothing, With("recommendation")}
ActionResponses == {Failed, Nothing, With("ok")}

SpecOfferInit == ApiInit /\ SessInit /\ FormInit /\ EngInit /\ ExtInit
SpecOfferNext ==
    \/ mountChat("BUYER")
    \/ \E r \in GroupResponses : groupSettles(r)
    \/ \E r \in ChatResponses : chatSettles(r)
    \/ \E r \in PollResponses : pollSettles(r)
    \/ \E r \in HistoryResponses : historySettles(r)
    \/ \E offerPrice \in {40} : handleBuyerOffer(offerPrice)
    \/ \E r \in OfferResponses : offerSettles(r)
SpecOffer == SpecOfferInit /\ [][SpecOfferNext]_vars

\* every button MessageList can show
Clicks ==
    [action : {"vote", "ai_help", "confirm_collection", "view_hub_details"},
     choice : {"ACCEPT", "REJECT", "YES", "NO", "none"},
     pollId : {0, 21, 22},
     pollType : {"location_confirmation", "none"}]

SpecVoteInit == ApiInit /\ SessInit /\ FormInit /\ EngInit /\ ExtInit
SpecVoteNext ==
    \/ mountChat("FARMER")
    \/ \E r \in GroupResponses : groupSettles(r)
    \/ \E r \in ChatResponses : chatSettles(r)
    \/ \E r \in MembersResponses : membersSettle(r)
    \/ \E r \in PollResponses : pollSettles(r)
    \/ \E r \in LogisticsResponses : logisticsSettles(r)
    \/ \E click \in Clicks : handleAction(click)
    \/ \E r \in ActionResponses : actionSettles(r)
    \/ \E r \in PollResponses : refreshSettles(r)
SpecVote == SpecVoteInit /\ [][SpecVoteNext]_vars

-----------------------------------------------------------------------------
(* The claims about authFetch, checked under SpecApi.                      *)

\* C1, as stated: every request authFetch sends carries Authorization
\* 'Token <token>' for the token it was given, Content-Type
\* 'application/json' when the body is not multipart, and no Content-Type
\* when the body is a FormData.
C1_AsStated ==
    afReq.sent =>
        /\ afReq.headers["Authorization"] = "Token " \o TemplateString(afCall.token)
        /\ afCall.options.body # "formdata" =>
               afReq.headers["Content-Type"] = "application/json"
        /\ afCall.options.body = "formdata" =>
               afReq.headers["Content-Type"] = Absent

\* C1, amended: a header the caller passes in options.headers is sent as the
\* caller gave it; otherwise Authorization is 'Token <token>', Content-Type
\* is 'application/json' for a body that is not multipart and is not sent
\* for a FormData.
C1_CallerHeadersWin ==
    afReq.sent =>
        LET given == afCall.options.headers
        IN  /\ afReq.headers["Authorization"] =
                  IF given["Authorization"] # Absent THEN given["Authorization"]
                  ELSE "Token " \o TemplateString(afCall.token)
            /\ afReq.headers["Content-Type"] =
                  IF given["Content-Type"] # Absent THEN given["Content-Type"]
                  ELSE IF afCall.options.body = "formdata" THEN Absent
                  ELSE "application/json"

\* the listing form's request: a FormData with the caller's own
\* Authorization header goes out with that header and no Content-Type
C1_Witness ==
    /\ afReq.sent
    /\ afCall.token = "t1"
    /\ afCall.options.body = "formdata"
    /\ afCall.options.headers["Authorization"] = "Token t1"
    /\ afReq.headers["Authorization"] = "Token t1"
    /\ afReq.headers["Content-Type"] = Absent

\* a non-2xx response whose body is a JSON object of arrays of messages
ErrorObjectOfArrays ==
    /\ afResp # NoResp
    /\ ~ok(afResp)
    /\ afResp.body.json
    /\ afResp.body.value.t = "object"
    /\ \A i \in 1..Len(afResp.body.value.fields) : afResp.body.value.fields[i].isArray

RECURSIVE AllMessages(_)
\* the messages of an object of arrays, field after field
AllMessages(fields) ==
    IF fields = <<>> THEN <<>> ELSE Head(fields).items \o AllMessages(Tail(fields))

RECURSIVE SpaceSeparated(_)
\* the strings of a list, a single space between neighbours
SpaceSeparated(strings) ==
    IF strings = <<>> THEN ""
    ELSE IF Len(strings) = 1 THEN strings[1]
    ELSE strings[1] \o " " \o SpaceSeparated(Tail(strings))

\* C2, as stated: for a non-2xx response whose body is a JSON object of
\* arrays of messages, authFetch rejects with all the messages, in field
\* order, joined by single spaces.
C2_AsStated ==
    (afPc = "done" /\ ErrorObjectOfArrays) =>
        /\ afOutcome.kind = "rejected"
        /\ afOutcome.message = SpaceSeparated(AllMessages(afResp.body.value.fields))

\* C2, amended: authFetch rejects with the messages joined by single spaces
\* when that string is not empty, and with 'An API error occurred.' when it
\* is (no messages at all, or a single empty message); it never resolves.
C2_JoinedOrFallback ==
    ErrorObjectOfArrays =>
        /\ afOutcome.kind # "resolved"
        /\ afPc = "done" =>
              /\ afOutcome.kind = "rejected"
              /\ LET joined == SpaceSeparated(AllMessages(afResp.body.value.fields))
                 IN  afOutcome.message =
                        IF joined = "" THEN "An API error occurred." ELSE joined

\* the body {"field": ["msg1", "msg2"]} is rejected with "msg1 msg2"
C2_Witness ==
    /\ afPc = "done"
    /\ afResp.status = 400
    /\ afResp.body = [json |-> TRUE,
                      value |-> JsObject(<<[isArray |-> TRUE, items |-> <<"msg1", "msg2">>]>>)]
    /\ afOutcome = Rejected("msg1 msg2")

\* C3: for a non-2xx response whose body is no JSON, authFetch rejects with
\* 'HTTP error! status: <status>' and never resolves.
C3_NonJsonError ==
    (afResp # NoResp /\ ~ok(afResp) /\ ~afResp.body.json) =>
        /\ afOutcome.kind # "resolved"
        /\ afPc = "done" =>
              /\ afOutcome.kind = "rejected"
              /\ afOutcome.message =
                    CASE afResp.status = 400 -> "HTTP error! status: 400"
                      [] afResp.status = 500 -> "HTTP error! status: 500"
                      [] OTHER -> "no such status"

\* a 500 with an HTML body is rejected with the generic message
C3_Witness ==
    /\ afPc = "done"
    /\ afResp = [status |-> 500, body |-> NonJsonBody]
    /\ afOutcome = Rejected("HTTP error! status: 500")

\* C4, as stated: a 204 resolves to null without response.json() being
\* called; every other 2xx resolves to the parsed JSON body.
C4_AsStated ==
    /\ afResp.status = 204 => afJsonCalls = 0
    /\ (afPc = "done" /\ afResp.status = 204) => afOutcome = Resolved(JsNull)
    /\ (afPc = "done" /\ ok(afResp) /\ afResp.status # 204) =>
          /\ afOutcome.kind = "resolved"
          /\ afOutcome.value = afResp.body.value

\* C4, amended: a 204 resolves to null without response.json() being called;
\* every other 2xx resolves to the parsed body when the body is JSON and
\* rejects with the parse error when it is not.
C4_NoContentOrParsed ==
    /\ afResp.status = 204 => afJsonCalls = 0
    /\ (afPc = "done" /\ afResp.status = 204) => afOutcome = Resolved(JsNull)
    /\ (afPc = "done" /\ ok(afResp) /\ afResp.status # 204) =>
          /\ afJsonCalls = 1
          /\ IF afResp.body.json
             THEN afOutcome.kind = "resolved" /\ afOutcome.value = afResp.body.value
             ELSE afOutcome.kind = "rejected"

\* a 204 has resolved to null with no call of response.json()
C4_Witness ==
    /\ afPc = "done"
    /\ afResp.status = 204
    /\ afOutcome = Resolved(JsNull)
    /\ afJsonCalls = 0

-----------------------------------------------------------------------------
(* The claims about the session store, checked under SpecSession.          *)

\* the response handleLogin / handleSubmit has in hand is OK, parses, and
\* carries a token
SuccessfulResponse == lgResp.ok /\ lgResp.json /\ truthy(lgResp.data.token)

\* C5: when handleLogin receives a successful response containing a user
\* and a token, the store holds exactly that user and that token and the
\* item 'user-storage' yields the same pair when the store is re-created;
\* and whenever the store holds a user, re-creating the store from the
\* persisted item yields the user and token the store holds.
C5_LoginStoredAndPersisted ==
    /\ [](user # UndefV =>
             rehydrate(storage) = [user |-> user, token |-> token])
    /\ [][(authJsonSettles /\ lgKind = "login" /\ SuccessfulResponse
              /\ lgResp.data.user # UndefV) =>
             /\ user' = lgResp.data.user
             /\ token' = lgResp.data.token
             /\ storage'.present
             /\ rehydrate(storage') =
                   [user |-> lgResp.data.user, token |-> lgResp.data.token]]_vars

\* alice's session after a reload: the page was loaded anew (no request has
\* been made since) and the store holds the user and token of the login
C5_Witness ==
    /\ lgKind = "none"
    /\ user = "alice"
    /\ token = "tokA"
    /\ storage = [present |-> TRUE, user |-> "alice", token |-> "tokA"]

\* C6: a logout, from the Logout button or from the farmer dashboard, leaves
\* user and token null whatever they were, and the persisted item holds null
\* for both, so that re-creating the store yields no session.
C6_LogoutClears ==
    [][(logout \/ dashboardLogout) =>
          /\ user' = NullV
          /\ token' = NullV
          /\ storage' = [present |-> TRUE, user |-> NullV, token |-> NullV]
          /\ rehydrate(storage') = [user |-> NullV, token |-> NullV]]_vars

\* a logout after a successful login: the response is still in hand, the
\* store and the persisted item are cleared
C6_Witness ==
    /\ lgPc = "idle"
    /\ lgKind = "login"
    /\ SuccessfulResponse
    /\ user = NullV
    /\ token = NullV
    /\ storage = [present |-> TRUE, user |-> NullV, token |-> NullV]

\* a step that ends a login or registration without a session: the request
\* failed, or the response is not OK, does not parse, or carries no token
FailedAttempt ==
    \/ authFetchFails
    \/ authJsonSettles /\ ~SuccessfulResponse

\* C7, as stated: user and token change only when a successful response
\* arrives and on logout; a failed login or registration leaves user and
\* token unchanged, sets nothing but the error, and ends the loading.
C7_AsStated ==
    [][/\ (user' # user \/ token' # token) =>
              \/ authJsonSettles /\ SuccessfulResponse
              \/ logout
              \/ dashboardLogout
       /\ FailedAttempt =>
              /\ user' = user /\ token' = token /\ storage' = storage
              /\ loading' = FALSE
              /\ step' = step /\ locationOk' = locationOk]_vars

\* C7, amended: as stated, except that a registration answered OK without a
\* token also switches the form to the login step, and that a page reload
\* turns a user the response left undefined into null.
C7_StoreFrame ==
    [][/\ (user' # user \/ token' # token) =>
              \/ authJsonSettles /\ SuccessfulResponse
              \/ logout
              \/ dashboardLogout
              \/ reload /\ user = UndefV /\ user' = NullV /\ token' = token
       /\ FailedAttempt =>
              /\ user' = user /\ token' = token /\ storage' = storage
              /\ loading' = FALSE
              /\ locationOk' = locationOk
              /\ step' = IF authJsonSettles /\ lgKind = "register"
                            /\ lgResp.ok /\ lgResp.json
                         THEN "login" ELSE step]_vars

\* bob's login was refused while alice's session was in the store: the
\* error is shown, the loading is over, the session is alice's
C7_Witness ==
    /\ lgPc = "idle"
    /\ lgKind = "login"
    /\ lgResp.json /\ ~lgResp.ok
    /\ error = "Invalid credentials"
    /\ ~loading
    /\ user = "alice"
    /\ token = "tokA"
    /\ storage = [present |-> TRUE, user |-> "alice", token |-> "tokA"]

-----------------------------------------------------------------------------
(* The claim about the new-listing form, checked under SpecListing.        *)

\* C8: a submit of the new-listing form while no crop is selected sends no
\* POST to /api/products/list-product/ (the browser reports the crop select
\* instead), and every POST sent names a crop.
C8_NoPostWithoutCrop ==
    /\ [](\A i \in 1..Len(lfPosts) : lfPosts[i].crop_name # "")
    /\ [][(submitForm /\ selectedCrop = "") =>
             lfPosts' = lfPosts /\ reported' = "crop"]_vars

\* a submit with quantity and grade filled in and no crop selected: the
\* crop select was reported and no POST has been sent
C8_Witness ==
    /\ reported = "crop"
    /\ selectedCrop = ""
    /\ quantity = "500"
    /\ selectedGrade = "FAQ"
    /\ lfPosts = <<>>

-----------------------------------------------------------------------------
(* The claims about WorkflowEngine's stages, checked under SpecEngine.     *)

\* C9, as stated: whatever deal group the engine was constructed with, its
\* currentStage is one of NEGOTIATING, ACCEPTED, IN_TRANSIT, DELIVERED,
\* COMPLETED.
C9_AsStated == constructed => currentStage \in Stages

\* the position of a stage in stageOrder
StageIndex(stage) == CHOOSE i \in 1..Len(stageOrder) : stageOrder[i] = stage

\* C10: the stages the engine has left, in order, followed by the stage it
\* is in, start with the stage it was constructed in and go on one step at a
\* time along stageOrder (none skipped, none revisited, COMPLETED never
\* left), so that each change has appended the one stageHistory entry naming
\* the stage left; and the first call of onStateChange after the k-th change
\* was made right after it, with the stage the change led to.
C10_OneStepForward ==
    constructed =>
        LET path == stageHistory \o <<currentStage>>
        IN  /\ path[1] = IF dealGroup.status = UndefV THEN NEGOTIATING
                         ELSE dealGroup.status
            /\ \A k \in 1..Len(stageHistory) :
                  /\ path[k] \in Stages \ {COMPLETED}
                  /\ path[k + 1] = stageOrder[StageIndex(path[k]) + 1]
                  /\ \E j \in 1..Len(stateChanges) :
                        /\ stateChanges[j] = [stage |-> path[k + 1], historyLength |-> k]
                        /\ \A i \in 1..(j - 1) : stateChanges[i].historyLength < k

\* an engine constructed on a negotiating deal that is now in transit
C10_Witness ==
    /\ constructed
    /\ stageHistory = <<NEGOTIATING, ACCEPTED>>
    /\ currentStage = IN_TRANSIT
    /\ ticks > 0

\* C11, as stated: the engine leaves a stage only in an evaluation in which
\* every condition listed for that stage passes on the deal group; when a
\* condition fails the stage stays as it is.
C11_AsStated ==
    [][\A k \in (Len(stageHistory) + 1)..Len(stageHistory') :
          checkStageConditions(dealGroup',
                               automationRules[stageHistory'[k]].conditions)]_vars

-----------------------------------------------------------------------------
(* The claim about the conversation context, checked under SpecContext.    *)

\* C12: after any sequence of addToContext calls, made by processUserMessage
\* and by generateStageGuidance, conversationContext holds at most 50
\* entries, and they are the entries pushed last, in the order they were
\* pushed.
C12_ContextBounded ==
    LET n == Len(conversationContext)
    IN  /\ n <= 50
        /\ n = IF ctxAdded <= 50 THEN ctxAdded ELSE 50
        /\ \A i \in 1..n : conversationContext[i].seq = ctxAdded - n + i

\* 53 entries were pushed, a stage guidance last: the context holds the
\* entries 4 to 53
C12_Witness ==
    /\ ctxAdded = 53
    /\ Len(conversationContext) = 50
    /\ conversationContext[1] = [type |-> "ai_response", seq |-> 4]
    /\ conversationContext[50] = [type |-> "stage_guidance", seq |-> 53]

-----------------------------------------------------------------------------
(* The claims about GroupRoom's timeline, checked under SpecTimeline, and  *)
(* about its racing polls, checked under SpecRoom.                         *)

\* C13, as stated: no two entries of the timeline GroupRoom builds share an
\* id.
C13_AsStated ==
    \A i, j \in 1..Len(grMessages) : i # j => grMessages[i].id # grMessages[j].id

\* C14: in the timeline stored in messages, no entry's timestamp is later
\* than the timestamp of the entry after it, whatever the timestamps of the
\* chat messages and of the history items.
C14_Chronological ==
    \A i \in 1..(Len(grMessages) - 1) :
        grMessages[i].timestamp <= grMessages[i + 1].timestamp

\* a history item of instant 1 stands before the chat messages of instant
\* 2, which were put into the list before it
C14_Witness ==
    /\ Len(grMessages) = 3
    /\ grMessages[1] = [id |-> "history_2", timestamp |-> 1, type |-> "negotiation"]
    /\ grMessages[2] = [id |-> "chat_2", timestamp |-> 2, type |-> "chat"]
    /\ grMessages[3] = [id |-> "chat_1", timestamp |-> 2, type |-> "chat"]

\* the ids of the entries fetchAll makes of a response
EntryIds(r) ==
    { "chat_" \o ToString(r.msgs[i].id) : i \in 1..Len(r.msgs) }
    \cup { "history_" \o ToString(m.id) :
             m \in { flatten(r.negotiationHistory)[i] :
                       i \in 1..Len(flatten(r.negotiationHistory)) }
                   \cap [type : {"negotiation_message", "poll"},
                         id : BackendIds, timestamp : Instants] }

\* C17: whenever a call of fetchAll completes with responses that did not
\* fail, messages, members, poll and logistics are replaced by what these
\* responses hold, whether or not a call made later has completed before:
\* the state is that of the call that completed last.
C17_LastCompletionWins ==
    [][\A f \in grInflight, r \in RoomResponses :
          (fetchAllSettles(f, r) /\ ~r.failed) =>
              /\ { grMessages'[i].id : i \in 1..Len(grMessages') } = EntryIds(r)
              /\ grMembers' = r.mems
              /\ grLogistics' = r.logisticsData
              /\ grPoll' = IF \E i \in 1..Len(r.polls) :
                                 r.polls[i].deal_group = GroupId /\ r.polls[i].is_active
                           THEN [id |-> 1, deal_group |-> GroupId, is_active |-> TRUE]
                           ELSE NoActivePoll
              /\ grApplied' = Append(grApplied, f.n)]_vars

\* the second call completed first, with two chat messages and the open
\* poll; the first call completed after it, and the room shows its
\* responses: one chat message and no poll
C17_Witness ==
    /\ grApplied = <<2, 1>>
    /\ grInflight = {}
    /\ Len(grMessages) = 1
    /\ grPoll = NoActivePoll

-----------------------------------------------------------------------------
(* The claim about the table of listings, checked under SpecTable.         *)

\* C15: every PATCH the farmer dashboard sends is for a listing the table
\* shows with status AVAILABLE or GRADING at the click, and a listing shown
\* with any other status has Locked, and no Edit button, in its Actions
\* cell.
C15_EditOnlyWhileEditable ==
    /\ [](\A i \in 1..Len(myListings) :
             myListings[i].status \notin {"AVAILABLE", "GRADING"}
                 => actionsCell(myListings[i]) = "Locked")
    /\ [][\A k \in (Len(patches) + 1)..Len(patches') :
             \E i \in 1..Len(myListings) :
                 /\ myListings[i].id = patches'[k].id
                 /\ myListings[i].status \in {"AVAILABLE", "GRADING"}]_vars

\* the table shows a GRADING listing and a SOLD one, and a PATCH was sent
\* for the first
C15_Witness ==
    /\ Len(myListings) = 2
    /\ myListings[1].status = "GRADING"
    /\ myListings[2].status = "SOLD"
    /\ Len(patches) = 1
    /\ patches[1] = [id |-> myListings[1].id, quantity_kg |-> 500]

-----------------------------------------------------------------------------
(* The claims about UnifiedChat's initial load, checked under SpecLoad.    *)

C20_AsStated ==
    [][(/\ ucRole = "BUYER"
        /\ fetchDataPc = "chat" /\ fetchDataPc' # "chat"
        /\ Len(ucMessages) > 0)
          => ucMessages' = ucMessages]_vars

-----------------------------------------------------------------------------
(* The claim about the farmer's votes, checked under SpecVote, and the     *)
(* claim about the buyer's offers, checked under SpecOffer.                *)

\* C16, as stated: every vote the unified chat sends is a POST to
\* location-polls/{pollId}/vote/ when the poll is a location-confirmation
\* poll and to polls/{pollId}/vote/ otherwise, with the chosen option as its
\* body, and no vote goes to another endpoint.
C16_AsStated ==
    \A i \in 1..Len(ucRequests) :
        ucRequests[i].body \in {"ACCEPT", "REJECT", "YES", "NO"} =>
            /\ ucRequests[i].method = "POST"
            /\ ucRequests[i].endpoint =
                  IF ucRequests[i].body \in {"YES", "NO"}
                  THEN "location-polls/{pollId}/vote/"
                  ELSE "polls/{pollId}/vote/"

-----------------------------------------------------------------------------
(* The claims about the engine's timers, checked under SpecEngine.         *)

\* the engine was destroyed: the constructor started the automation timer
\* and only destroy() clears it
destroyed == constructed /\ ~workflowTimer

\* the fields of the deal group the engine writes
written(dg) ==
    <<dg.logistics_status, dg.escrow_status, dg.shipment_status,
      dg.delivery_scheduled, dg.receipt_status, dg.payment_status>>

\* C21, as stated: once destroy() has run, no step calls onStateChange or
\* onActionRequired, and none changes currentStage, pendingActions or a
\* field of the deal group.
C21_AsStated ==
    [][destroyed =>
          /\ stateChanges' = stateChanges
          /\ nextId' = nextId
          /\ currentStage' = currentStage
          /\ pendingActions' = pendingActions
          /\ written(dealGroup') = written(dealGroup)]_vars

\* C24: while autoProgressEnabled is false no step changes currentStage,
\* and a tick of the automation timer changes nothing of the engine; a tick
\* while it is true, so also the first one after setAutoProgress(true),
\* leaves the engine as analyzeCurrentStage leaves it.
C24_DisabledTicksDoNothing ==
    /\ [][~autoProgressEnabled => currentStage' = currentStage]_vars
    /\ [][(automationTick /\ ~autoProgressEnabled) => this' = this]_vars
    /\ [][(automationTick /\ autoProgressEnabled) =>
             this' \in analyzeCurrentStage(this)]_vars

\* a DELIVERED engine whose three conditions pass has been through a tick
\* and is still DELIVERED, auto-progress being off
C24_Witness ==
    /\ constructed
    /\ ~autoProgressEnabled
    /\ workflowTimer
    /\ ticks >= 1
    /\ currentStage = DELIVERED
    /\ stageReads(DELIVERED) \subseteq read
    /\ checkStageConditions(dealGroup, automationRules[DELIVERED].conditions)

\* the stage the constructor starts in
startedIn == initialStage(dealGroup.status)

\* C25: an engine in IN_TRANSIT stays in IN_TRANSIT, and an engine that
\* started in NEGOTIATING, ACCEPTED or IN_TRANSIT is never in DELIVERED or
\* COMPLETED, whatever the fields of the deal group.
C25_TransitNeverAdvances ==
    /\ [](constructed /\ startedIn \in {NEGOTIATING, ACCEPTED, IN_TRANSIT}
             => currentStage \in {NEGOTIATING, ACCEPTED, IN_TRANSIT})
    /\ [][constructed /\ currentStage = IN_TRANSIT => currentStage' = IN_TRANSIT]_vars

\* an IN_TRANSIT engine with the shipment confirmed and the delivery
\* scheduled has been through every tick of the model
C25_Witness ==
    /\ constructed
    /\ currentStage = IN_TRANSIT
    /\ dealGroup.shipment_status = "CONFIRMED"
    /\ dealGroup.delivery_scheduled = TRUE
    /\ autoProgressEnabled /\ workflowTimer
    /\ ticks = MaxTicks

\* C27, as stated: while the engine is in ACCEPTED, an escrow_status of
\* 'CONFIRMED' stays 'CONFIRMED'.
C27_AsStated ==
    [][(/\ constructed
        /\ currentStage = ACCEPTED /\ currentStage' = ACCEPTED
        /\ "escrow_status" \in read
        /\ dealGroup.escrow_status = "CONFIRMED")
          => dealGroup'.escrow_status = "CONFIRMED"]_vars

-----------------------------------------------------------------------------
(* The claim about the last stage, checked under SpecDelivered.            *)

\* C26: an engine constructed for a deal whose status is DELIVERED, with a
\* tick of the automation timer still to come, reaches COMPLETED unless
\* auto-progress is switched off or the engine destroyed on the way; no
\* field of the deal group is written from outside.
C26_DeliveredCompletes ==
    (constructed /\ startedIn = DELIVERED /\ ticks < MaxTicks)
        ~> (currentStage = COMPLETED \/ ~autoProgressEnabled \/ ~workflowTimer)

\* a DELIVERED engine whose conditions failed at construction is COMPLETED
\* after its three timeouts and a tick, never switched off nor destroyed
C26_Witness ==
    /\ constructed
    /\ startedIn = DELIVERED
    /\ currentStage = COMPLETED
    /\ stageHistory = <<DELIVERED>>
    /\ ticks = 1
    /\ nextId = 4
    /\ autoProgressEnabled /\ workflowTimer

-----------------------------------------------------------------------------
(* The claims about the agent's monitoring, checked under SpecGuidance and *)
(* SpecNotify.                                                             *)

\* C22, as stated: once AIAgentSystem.destroy() has run, no message is given
\* to onMessageGenerated and checkWorkflowProgress, which asks the engine for
\* its status, does not run.
C22_AsStated ==
    [][aiDestroyed => (generated' = generated /\ ~checkWorkflowProgress)]_vars

\* C23, as stated: of an agent that was not destroyed, two successive
\* ai_stage_guidance messages are at least ten minutes apart, whatever
\* calls of processUserMessage come between the checks.
C23_AsStated ==
    ~aiDestroyed =>
        \A i \in 1..(Len(guidanceTimes) - 1) :
            guidanceTimes[i + 1] - guidanceTimes[i] >= guidanceInterval

\* C28: no two ai_action_notification messages are about the same pending
\* action, and each is about an action of the engine's pendingActions,
\* however often checkWorkflowProgress has run, before or after destroy(),
\* and whatever order checkPendingActions has put the actions in.
C28_NotifiedOnce ==
    /\ \A i, j \in 1..Len(notifications) :
          i # j => notifications[i] # notifications[j]
    /\ \A i \in 1..Len(notifications) :
          \E k \in 1..Len(pendingActions) : pendingActions[k].id = notifications[i]
    /\ aiNotified = {notifications[i] : i \in 1..Len(notifications)}

\* the agent was told of the actions in the order they were added, the
\* engine has sorted them into another order since and added a fourth, and
\* a later check has told the agent of that one alone
C28_Witness ==
    /\ notifications = <<1, 2, 3, 4>>
    /\ Len(pendingActions) = 4
    /\ \E i, j \in 1..4 : i < j /\ pendingActions[i].id > pendingActions[j].id
    /\ aiClock >= 2

=============================================================================
